---- MODULE Spec2Model ----
(***************************************************************************)
(* Model of the assessor-impact validation harness of agentready:          *)
(*   services/harbor/agent_toggler.py  (AssessorStateToggler)              *)
(*   services/harbor/comparer.py       (compare_assessor_impact,           *)
(*                                      compare_runs, significance)        *)
(*   services/harbor/result_parser.py  (parse_harbor_results)              *)
(*   services/harbor/runner.py         (HarborRunner)                      *)
(*   models/harbor.py                  (HarborTaskResult, HarborRunMetrics,*)
(*                                      HarborComparison)                  *)
(*   cli/benchmark.py                  (validate_assessor)                 *)
(***************************************************************************)
EXTENDS Integers, Sequences, FiniteSets, TLC

VARIABLES
    tree,        \* working tree: criterion path -> content, or ABSENT
    lastOp,      \* last direct toggler call <<name, assessor_id>>
    prevOp,      \* the direct toggler call before it
    prevTree,    \* working tree before lastOp
    prev2Tree,   \* working tree before prevOp
    lastErr,     \* exception raised by lastOp, or NoErr
    scopePc,     \* position of temporarily_failed: out / body / exited / raised
    scopeId,     \* assessor_id the scope was entered with
    entryTree,   \* working tree when the scope was entered
    bodyTouched, \* the body changed the target or the backup path
    bodyOutcome, \* how the body of the with statement ended
    restoreRuns, \* number of restore() calls made by the finally clause
    propagated,  \* exception that left the with statement, or NoErr
    pc,          \* position of validate_assessor / compare_assessor_impact
    assessor,    \* assessor_id of the experiment
    installed,   \* the harbor CLI is installed
    startTree,   \* working tree when the experiment started
    outFs,       \* output paths that exist
    startFs,     \* output paths that existed when the experiment started
    inScope,     \* control is inside "with toggler.temporarily_failed(...)"
    log,         \* calls made so far, in program order
    execCalls,   \* number of harbor benchmark subprocesses started
    failPhase,   \* phase in which the experiment failed, or "none"
    err,         \* exception that left compare_assessor_impact, or NoErr
    trials,      \* list of HarborTaskResult decoded so far
    raws,        \* the result.json records trials was decoded from
    metrics,     \* HarborRunMetrics computed from trials, or NoMetrics
    without_agent,  \* HarborRunMetrics of the baseline arm
    with_agent,     \* HarborRunMetrics of the treatment arm
    scipy,          \* "from scipy import stats" succeeds
    hashSeed,       \* iteration order of a set of task names in this process
    now,            \* wall clock read by datetime.now()
    comparison,     \* HarborComparison returned by the last compare_runs
    prevComparison, \* HarborComparison returned by the call before it
    group1,         \* first sample given to calculate_cohens_d
    group2,         \* second sample given to calculate_cohens_d
    effect,         \* calculate_cohens_d(group1, group2), or NotComputed
    effectSwapped,  \* calculate_cohens_d(group2, group1), or NotComputed
    resultsDir,     \* the Harbor run directory on disk
    parsed,         \* outcome of parse_harbor_results(resultsDir)
    bodyWrote,      \* <<path kind, content>> the body of the scope wrote
    expTasks,       \* task_names given to compare_assessor_impact
    runs_per_task,  \* runs_per_task given to compare_assessor_impact
    requested,      \* harbor commands issued so far, one per arm
    json_record,    \* keys of the JSON record validate_assessor wrote
    outputDir,      \* output_dir of run_benchmark: its entries, oldest first
    runCalls,       \* number of run_benchmark calls made
    invocations,    \* number of "harbor run" subprocesses started
    runResult,      \* outcome of the last run_benchmark call
    registry,       \* AssessorStateToggler.MANIPULATIONS, the class attribute
    instances,      \* AssessorStateToggler objects constructed so far
    lastReg,        \* last construction or registration
    prevRegistry,   \* registry before lastReg
    agentFs,        \* agent_file and disabled_file: content, or ABSENT
    agentScope,     \* position of temporarily_disabled / temporarily_enabled
    agentHist,      \* last two direct AgentFileToggler calls and their trees
    ilTree,         \* target and backup path shared by two scopes
    ilProcs         \* the two interleaved temporarily_failed scopes

togVars   == <<lastOp, prevOp, prevTree, prev2Tree, lastErr>>
scopeVars == <<scopePc, scopeId, entryTree, bodyTouched, bodyOutcome,
               restoreRuns, propagated>>
orchVars  == <<pc, assessor, installed, startTree, outFs, startFs, inScope,
               log, execCalls, failPhase, err>>
metVars   == <<trials, raws, metrics>>
cmpVars   == <<without_agent, with_agent, scipy, hashSeed, now, comparison,
               prevComparison>>
cohVars   == <<group1, group2, effect, effectSwapped>>
parseVars == <<resultsDir, parsed>>
bodyVars  == <<bodyWrote>>
expVars   == <<expTasks, runs_per_task, requested, json_record>>
runVars   == <<outputDir, runCalls, invocations, runResult>>
regVars   == <<registry, instances, lastReg, prevRegistry>>
agentVars == <<agentFs, agentScope, agentHist>>
ilVars    == <<ilTree, ilProcs>>
restVars  == <<bodyVars, runVars, regVars, agentVars, ilVars>>
moreVars  == <<expVars, restVars>>
vars      == <<tree, togVars, scopeVars, orchVars, metVars, cmpVars, cohVars,
               parseVars, moreVars>>

(***************************************************************************)
(* The working tree                                                        *)
(***************************************************************************)
ABSENT == "absent"
\* content tokens: what the target holds, what a leftover backup holds,
\* what a body writes
Content == {"orig", "stale", "written"}

\* registration order of _initialize_default_manipulations
RegisteredIds == <<"claude_md_file", "readme_structure", "test_coverage">>
MANIPULATIONS == {RegisteredIds[i] : i \in 1..Len(RegisteredIds)}
UnknownId     == "nonexistent"
AssessorIds   == MANIPULATIONS \cup {UnknownId}

\* <<id, "target">> is CLAUDE.md / README.md / tests,
\* <<id, "backup">> is the same path with _backup_suffix appended
Paths     == MANIPULATIONS \X {"target", "backup"}
Target(a) == <<a, "target">>
Backup(a) == <<a, "backup">>
Trees     == [Paths -> Content \cup {ABSENT}]

\* trees the program can start in: each target is there or not, and a
\* backup left by an earlier run is there or not
InitTrees ==
    {t \in Trees : \A a \in MANIPULATIONS :
        /\ t[Target(a)] \in {"orig", ABSENT}
        /\ t[Backup(a)] \in {"stale", ABSENT}}

exists(t, p) == t[p] # ABSENT

NoErr == [kind |-> "none"]
FileNotFound == [kind |-> "FileNotFoundError"]
UnknownAssessor(a) ==
    [kind |-> "ValueError", text |-> "Unknown assessor", id |-> a,
     available |-> RegisteredIds]

\* shutil.move(src, dst): a rename; a missing src raises
move(t, src, dst) ==
    IF ~exists(t, src)
    THEN [tree |-> t, err |-> FileNotFound]
    ELSE [tree |-> [t EXCEPT ![dst] = t[src], ![src] = ABSENT], err |-> NoErr]

(***************************************************************************)
(* AssessorStateToggler                                                    *)
(***************************************************************************)
\* a "toggle": moves the backup back when the target is already gone
fail_action_toggle(t, a) ==
    IF exists(t, Target(a)) /\ ~exists(t, Backup(a))
    THEN move(t, Target(a), Backup(a))
    ELSE IF exists(t, Backup(a)) /\ ~exists(t, Target(a))
         THEN move(t, Backup(a), Target(a))
         ELSE [tree |-> t, err |-> NoErr]

\* fail_claude_md / fail_readme / fail_tests
fail_action(t, a) ==
    IF exists(t, Target(a)) /\ ~exists(t, Backup(a))
    THEN move(t, Target(a), Backup(a))
    ELSE [tree |-> t, err |-> NoErr]

\* restore_claude_md / restore_readme / restore_tests
restore_action(t, a) ==
    IF exists(t, Backup(a)) /\ ~exists(t, Target(a))
    THEN move(t, Backup(a), Target(a))
    ELSE [tree |-> t, err |-> NoErr]

\* the membership test is dropped: the dictionary lookup raises KeyError
force_fail_unchecked(t, a) ==
    IF a \notin MANIPULATIONS
    THEN [tree |-> t, err |-> [kind |-> "KeyError"]]
    ELSE fail_action(t, a)

force_fail(t, a) ==
    IF a \notin MANIPULATIONS
    THEN [tree |-> t, err |-> UnknownAssessor(a)]
    ELSE fail_action(t, a)

restore(t, a) ==
    IF a \notin MANIPULATIONS
    THEN [tree |-> t, err |-> UnknownAssessor(a)]
    ELSE restore_action(t, a)

NoOp == <<"none", "none">>

TogglerIdle ==
    /\ lastOp = NoOp /\ prevOp = NoOp
    /\ prevTree = tree /\ prev2Tree = tree
    /\ lastErr = NoErr

ScopeIdle ==
    /\ scopePc = "out" /\ scopeId = "none"
    /\ entryTree = tree /\ bodyTouched = FALSE
    /\ bodyOutcome = "none"
    /\ restoreRuns = 0 /\ propagated = NoErr

\* a direct call toggler.force_fail(a)
ForceFail(a) ==
    LET r == force_fail(tree, a) IN
    /\ scopePc = "out"
    /\ tree' = r.tree
    /\ lastErr' = r.err
    /\ lastOp' = <<"force_fail", a>>
    /\ prevOp' = lastOp
    /\ prevTree' = tree
    /\ prev2Tree' = prevTree
    /\ UNCHANGED <<scopeVars, orchVars, metVars, cmpVars, cohVars,
                 parseVars,
                   moreVars>>

\* a direct call toggler.restore(a)
Restore(a) ==
    LET r == restore(tree, a) IN
    /\ scopePc = "out"
    /\ tree' = r.tree
    /\ lastErr' = r.err
    /\ lastOp' = <<"restore", a>>
    /\ prevOp' = lastOp
    /\ prevTree' = tree
    /\ prev2Tree' = prevTree
    /\ UNCHANGED <<scopeVars, orchVars, metVars, cmpVars, cohVars,
                 parseVars,
                   moreVars>>

\* what leaves the with statement for each way the body ends
BodyOutcomes == {"return", "raise", "interrupt"}
BodyException(o) ==
    CASE o = "raise"     -> [kind |-> "RuntimeError"]
      [] o = "interrupt" -> [kind |-> "KeyboardInterrupt"]
      [] OTHER           -> NoErr

\* temporarily_failed up to its yield.  An exception of force_fail is raised
\* inside the try, so the finally clause calls restore before it leaves; an
\* exception of restore replaces it.
temporarily_failed_enter(t, a) ==
    LET f == force_fail(t, a)
        r == restore(f.tree, a)
    IN
    IF f.err # NoErr
    THEN [tree |-> r.tree, yielded |-> FALSE, restores |-> 1,
          err |-> IF r.err # NoErr THEN r.err ELSE f.err]
    ELSE [tree |-> f.tree, yielded |-> TRUE, restores |-> 0, err |-> NoErr]

\* restore placed after the yield without try/finally: skipped when the
\* body raises
temporarily_failed_exit_no_finally(t, a, exc) ==
    IF exc # NoErr
    THEN [tree |-> t, restores |-> 0, err |-> exc]
    ELSE LET r == restore(t, a) IN
         [tree |-> r.tree, restores |-> 1, err |-> r.err]

\* temporarily_failed from its yield on: the body ended with exception exc
\* (NoErr for a normal end), the finally clause calls restore, and the
\* body's exception is re-raised
temporarily_failed_exit(t, a, exc) ==
    LET r == restore(t, a) IN
    [tree |-> r.tree, restores |-> 1,
     err |-> IF r.err # NoErr THEN r.err ELSE exc]

\* with toggler.temporarily_failed(a): entering the with statement
EnterScope(a) ==
    LET e == temporarily_failed_enter(tree, a) IN
    /\ scopePc = "out"
    /\ scopeId' = a
    /\ entryTree' = tree
    /\ tree' = e.tree
    /\ restoreRuns' = restoreRuns + e.restores
    /\ propagated' = e.err
    /\ scopePc' = IF e.yielded THEN "body" ELSE "raised"
    /\ UNCHANGED <<bodyTouched, bodyOutcome, togVars, orchVars, metVars, cmpVars, cohVars,
                 parseVars,
                   moreVars>>

\* the body writes or removes the criterion's target or backup path
BodyTouch(k, c) ==
    /\ scopePc = "body"
    /\ ~bodyTouched
    /\ tree[<<scopeId, k>>] # c
    /\ tree' = [tree EXCEPT ![<<scopeId, k>>] = c]
    /\ bodyTouched' = TRUE
    /\ bodyWrote' = <<k, c>>
    /\ UNCHANGED <<scopePc, scopeId, entryTree, bodyOutcome, restoreRuns,
                   propagated, togVars, orchVars, metVars, cmpVars, cohVars,
                   parseVars, expVars, runVars, regVars, agentVars, ilVars>>

\* the body ends with outcome o and control leaves the with statement
ExitScope(o) ==
    LET x == temporarily_failed_exit(tree, scopeId, BodyException(o)) IN
    /\ scopePc = "body"
    /\ bodyOutcome' = o
    /\ tree' = x.tree
    /\ restoreRuns' = restoreRuns + x.restores
    /\ propagated' = x.err
    /\ scopePc' = "exited"
    /\ UNCHANGED <<scopeId, entryTree, bodyTouched, togVars, orchVars, metVars, cmpVars, cohVars,
                 parseVars,
                   moreVars>>

\* no experiment is running
OrchIdle ==
    /\ pc = "Idle" /\ assessor = "none" /\ installed = TRUE
    /\ startTree = tree /\ startFs = outFs
    /\ inScope = FALSE /\ log = <<>> /\ execCalls = 0
    /\ failPhase = "none" /\ err = NoErr

(***************************************************************************)
(* HarborTaskResult and HarborRunMetrics                                   *)
(***************************************************************************)
\* strings that are searched or re-cased are sequences of characters
UpperChars == <<"A", "B", "C", "D", "E", "F", "G", "H", "I", "J", "K", "L", "M",
                "N", "O", "P", "Q", "R", "S", "T", "U", "V", "W", "X", "Y", "Z">>
LowerChars == <<"a", "b", "c", "d", "e", "f", "g", "h", "i", "j", "k", "l", "m",
                "n", "o", "p", "q", "r", "s", "t", "u", "v", "w", "x", "y", "z">>
\* str.lower
lower(str) ==
    [i \in DOMAIN str |->
        IF \E k \in DOMAIN UpperChars : UpperChars[k] = str[i]
        THEN LowerChars[CHOOSE k \in DOMAIN UpperChars : UpperChars[k] = str[i]]
        ELSE str[i]]
\* sub in str
contains(sub, str) ==
    \E i \in 0..(Len(str) - Len(sub)) : SubSeq(str, i + 1, i + Len(sub)) = sub

TimeoutStr == <<"t", "i", "m", "e", "o", "u", "t">>
ExceptionTypes ==
    { <<"T", "i", "m", "e", "o", "u", "t", "E", "r", "r", "o", "r">>,
      <<"A", "g", "e", "n", "t", "T", "I", "M", "E", "O", "U", "T">>,
      <<"R", "u", "n", "t", "i", "m", "e", "E", "r", "r", "o", "r">> }

\* JSON values: null, an object (agent_result, verifier_result), and the
\* exception_info object with the keys it has
Null == [null |-> TRUE, keys |-> {}, exception_type |-> <<>>]
Object == [null |-> FALSE, keys |-> {"status"}, exception_type |-> <<>>]
ExceptionInfos ==
    {[null |-> FALSE, keys |-> {}, exception_type |-> <<>>],
     [null |-> FALSE, keys |-> {"exception_message"}, exception_type |-> <<>>]}
    \cup {[null |-> FALSE, keys |-> {"exception_type", "exception_message"},
           exception_type |-> ty] : ty \in ExceptionTypes}
\* dict.get("exception_type", "")
get_exception_type(d) ==
    IF "exception_type" \in d.keys THEN d.exception_type ELSE <<>>
\* truth value of an Optional[dict]
truthy(d) == ~d.null /\ d.keys # {}

TaskNames == {"task1"}
\* timestamps, in seconds
StartTimes == {0}
FinishTimes == {60, 120}
\* a duration the record itself carries, next to its two timestamps
RecordedDurations == {60}
\* decoded result.json records; keys holds which of the optional keys the
\* JSON object has, and a key it lacks has no value
ResultData ==
    {rd \in [task_name : TaskNames, trial_name : {"trial"},
             keys : SUBSET {"exception_info"},
             agent_result : {Null, Object}, verifier_result : {Null, Object},
             exception_info : {Null} \cup ExceptionInfos,
             started_at : StartTimes, finished_at : FinishTimes,
             duration_sec : RecordedDurations] :
        "exception_info" \notin rd.keys => rd.exception_info = Null}

\* result_data.get("exception_info"): None for a missing key
get_exception_info(rd) ==
    IF "exception_info" \in rd.keys THEN rd.exception_info ELSE Null

\* the duration is copied from the record instead of computed
from_result_json_recorded_duration(rd) ==
    [task_name |-> rd.task_name,
     trial_name |-> rd.trial_name,
     success |-> /\ get_exception_info(rd).null
                 /\ ~rd.agent_result.null
                 /\ ~rd.verifier_result.null,
     duration_sec |-> rd.duration_sec,
     agent_result |-> rd.agent_result,
     verifier_result |-> rd.verifier_result,
     exception_info |-> get_exception_info(rd),
     started_at |-> rd.started_at,
     finished_at |-> rd.finished_at]

\* HarborTaskResult.from_result_json
from_result_json(rd) ==
    [task_name |-> rd.task_name,
     trial_name |-> rd.trial_name,
     success |-> /\ get_exception_info(rd).null
                 /\ ~rd.agent_result.null
                 /\ ~rd.verifier_result.null,
     duration_sec |-> rd.finished_at - rd.started_at,
     agent_result |-> rd.agent_result,
     verifier_result |-> rd.verifier_result,
     exception_info |-> get_exception_info(rd),
     started_at |-> rd.started_at,
     finished_at |-> rd.finished_at]

RECURSIVE SumDurations(_)
SumDurations(ts) ==
    IF ts = <<>> THEN 0 ELSE Head(ts).duration_sec + SumDurations(Tail(ts))

\* a quotient a / b of the float arithmetic, kept exact
Quot(a, b) == [num |-> a, den |-> b]
Zero == [num |-> 0, den |-> 1]
Abs(n) == IF n < 0 THEN 0 - n ELSE n
RECURSIVE GCD(_, _)
GCD(a, b) == IF b = 0 THEN a ELSE GCD(b, a % b)
\* the same number in lowest terms, with a positive denominator
Norm(x) ==
    LET g == GCD(Abs(x.num), Abs(x.den))
        sign == IF x.den < 0 THEN 0 - 1 ELSE 1
    IN [num |-> sign * (x.num \div g), den |-> sign * (x.den \div g)]
\* float arithmetic on quotients, kept exact
RSub(x, y) ==
    Norm([num |-> x.num * y.den - y.num * x.den, den |-> x.den * y.den])
RAdd(x, y) ==
    Norm([num |-> x.num * y.den + y.num * x.den, den |-> x.den * y.den])
RMul(x, y) == Norm([num |-> x.num * y.num, den |-> x.den * y.den])
RNeg(x) == [num |-> 0 - x.num, den |-> x.den]
\* x / y for y # 0
RDiv(x, y) == Norm([num |-> x.num * y.den, den |-> x.den * y.num])
\* x == y, x > 0 on floats
REq(x, y) == Norm(x) = Norm(y)
RPos(x) == Norm(x).num > 0

NoMetrics == [computed |-> FALSE]

\* HarborRunMetrics.from_task_results
from_task_results(ts) ==
    LET total_tasks == Len(ts)
        IsSuccess(r) == r.success
        IsFailed(r) == ~r.success /\ r.exception_info.null
        IsTimedOut(r) ==
            /\ ~r.success
            /\ truthy(r.exception_info)
            /\ contains(TimeoutStr, lower(get_exception_type(r.exception_info)))
        successful_tasks == Cardinality({i \in DOMAIN ts : IsSuccess(ts[i])})
        failed_tasks == Cardinality({i \in DOMAIN ts : IsFailed(ts[i])})
        timed_out_tasks == Cardinality({i \in DOMAIN ts : IsTimedOut(ts[i])})
        completed_results == SelectSeq(ts, LAMBDA r : ~r.agent_result.null)
    IN
    [computed |-> TRUE,
     task_results |-> ts,
     success_rate |-> IF total_tasks > 0
                      THEN Quot(successful_tasks * 100, total_tasks) ELSE Zero,
     completion_rate |-> IF total_tasks > 0
                         THEN Quot((successful_tasks + failed_tasks) * 100, total_tasks)
                         ELSE Zero,
     avg_duration_sec |-> IF completed_results # <<>>
                          THEN Quot(SumDurations(completed_results),
                                    Len(completed_results))
                          ELSE Zero,
     total_tasks |-> total_tasks,
     successful_tasks |-> successful_tasks,
     failed_tasks |-> failed_tasks,
     timed_out_tasks |-> timed_out_tasks]

\* the durations that enter avg_duration_sec in from_task_results: those of
\* the trials with agent_result is not None
RECURSIVE completed_durations(_)
completed_durations(ts) ==
    IF ts = <<>> THEN <<>>
    ELSE (IF ~Head(ts).agent_result.null
          THEN <<Head(ts).duration_sec>> ELSE <<>>)
         \o completed_durations(Tail(ts))

\* longest trial list
MaxTrials == 2

\* nothing compared, no effect size computed, nothing parsed
NoComparison == [computed |-> FALSE]
NotComputed ==
    [computed |-> FALSE, defined |-> FALSE, diff |-> Zero, pooled_var |-> Zero]
NoDir == [exists |-> FALSE, job_result |-> FALSE, entries |-> <<>>]
NotParsed == [done |-> FALSE, returned |-> FALSE]
CompareIdle ==
    /\ without_agent = NoMetrics /\ with_agent = NoMetrics
    /\ scipy = TRUE /\ hashSeed = <<>> /\ now = 0
    /\ comparison = NoComparison /\ prevComparison = NoComparison
CohensDIdle ==
    /\ group1 = <<>> /\ group2 = <<>>
    /\ effect = NotComputed /\ effectSwapped = NotComputed
ParseIdle == resultsDir = NoDir /\ parsed = NotParsed

\* no run_benchmark call made, no toggler constructed, no agent file, no
\* interleaved scope
NoOutputDir == [exists |-> FALSE, entries |-> <<>>]
NoRun == [done |-> FALSE]
NoRegistry == <<>>
NoReg == [op |-> "none", by |-> "none", id |-> "none"]
NoAgentFs == [agent |-> ABSENT, disabled |-> ABSENT]
NoAgentScope ==
    [pc |-> "idle", kind |-> "none", was |-> FALSE, entry |-> NoAgentFs,
     touched |-> FALSE, outcome |-> "none", propagated |-> NoErr]
BodyIdle == bodyWrote = <<>>
ExpIdle ==
    /\ expTasks = <<>> /\ runs_per_task = 0
    /\ requested = <<>> /\ json_record = <<>>
RunIdle ==
    /\ outputDir = NoOutputDir /\ runCalls = 0
    /\ invocations = 0 /\ runResult = NoRun
RegIdle ==
    /\ registry = NoRegistry /\ instances = {}
    /\ lastReg = NoReg /\ prevRegistry = NoRegistry
AgentIdle ==
    /\ agentFs = NoAgentFs /\ agentScope = NoAgentScope /\ agentHist = <<>>
NoIlTree == [target |-> ABSENT, backup |-> ABSENT]
IlIdle == ilTree = NoIlTree /\ ilProcs = <<>>
MoreIdle ==
    /\ BodyIdle /\ ExpIdle /\ RunIdle /\ RegIdle /\ AgentIdle /\ IlIdle

MetricsIdle == trials = <<>> /\ raws = <<>> /\ metrics = NoMetrics

\* one more result.json is decoded into a HarborTaskResult
DecodeTrial(rd) ==
    /\ Len(trials) < MaxTrials
    /\ trials' = Append(trials, from_result_json(rd))
    /\ raws' = Append(raws, rd)
    /\ metrics' = NoMetrics
    /\ UNCHANGED <<tree, togVars, scopeVars, orchVars, cmpVars, cohVars, parseVars,
                   moreVars>>

\* HarborRunMetrics.from_task_results(run_id, agent_file_enabled, trials)
Aggregate ==
    /\ metrics = NoMetrics
    /\ metrics' = from_task_results(trials)
    /\ UNCHANGED <<tree, togVars, scopeVars, orchVars, trials, raws, cmpVars,
                 cohVars, parseVars,
                   moreVars>>

InitMetrics ==
    /\ tree = [p \in Paths |-> ABSENT] /\ outFs = {}
    /\ TogglerIdle /\ ScopeIdle /\ OrchIdle /\ MetricsIdle
    /\ CompareIdle /\ CohensDIdle /\ ParseIdle /\ MoreIdle

NextMetrics ==
    \/ \E rd \in ResultData : DecodeTrial(rd)
    \/ Aggregate

SpecMetrics == InitMetrics /\ [][NextMetrics]_vars

InitToggler ==
    /\ tree \in InitTrees /\ outFs = {}
    /\ TogglerIdle /\ ScopeIdle /\ OrchIdle /\ MetricsIdle
    /\ CompareIdle /\ CohensDIdle /\ ParseIdle /\ MoreIdle

NextToggler ==
    \/ \E a \in AssessorIds : ForceFail(a)
    \/ \E a \in AssessorIds : Restore(a)
    \/ \E a \in AssessorIds : EnterScope(a)
    \/ \E k \in {"target", "backup"}, c \in {"written", ABSENT} : BodyTouch(k, c)
    \/ \E o \in BodyOutcomes : ExitScope(o)

SpecToggler == InitToggler /\ [][NextToggler]_vars

(***************************************************************************)
(* HarborRunner and compare_assessor_impact, called by validate_assessor    *)
(***************************************************************************)
HarborNotInstalled == [kind |-> "HarborNotInstalledError"]

\* the installation check is dropped
verify_harbor_installed_skipped(inst) == NoErr

\* HarborRunner.__init__ -> _verify_harbor_installed
verify_harbor_installed(inst) ==
    IF inst THEN NoErr ELSE HarborNotInstalled

\* ways run_benchmark fails: the subprocess exits non-zero, it exits zero
\* and output_dir holds no entry, or an interrupt arrives while it runs
ExecFailures == {"nonzero", "no_results", "interrupt"}
ExecException(o) ==
    CASE o = "nonzero"    -> [kind |-> "CalledProcessError"]
      [] o = "no_results" -> [kind |-> "ValueError", text |-> "No results found"]
      [] OTHER            -> [kind |-> "KeyboardInterrupt"]

\* ways parse_harbor_results fails
IngestFailures == {"not_found", "no_files", "no_valid"}
IngestException(i) ==
    CASE i = "not_found" -> [kind |-> "FileNotFoundError"]
      [] i = "no_files"  -> [kind |-> "ValueError", text |-> "No result.json files found"]
      [] OTHER           -> [kind |-> "ValueError", text |-> "No valid task results parsed"]

\* task_names and runs_per_task that validate_assessor passes on
TaskLists == {<<"A">>, <<"A", "B">>}
RunsPerTask == {1, 2, 3}

\* attempts per task of "harbor run" when the command names no number
HarborDefaultAttempts == 1

\* the command run_benchmark builds: dataset, agent, and one -t per task
\* name; runs_per_task is not a parameter of run_benchmark
harbor_command(names) ==
    [d |-> "terminal-bench@2.0", a |-> "claude-code", t |-> names]

\* a command that passes runs_per_task on as the number of attempts
harbor_command_with_attempts(names, runs) ==
    [d |-> "terminal-bench@2.0", a |-> "claude-code", t |-> names,
     n_attempts |-> runs]

\* trials the external tool is asked for by a command
trials_requested(cmd) ==
    Len(cmd.t) * (IF "n_attempts" \in DOMAIN cmd THEN cmd.n_attempts
                  ELSE HarborDefaultAttempts)

\* the record validate_assessor dumps to <assessor>.json
json_results(a, names, runs) ==
    [assessor_id |-> a, tasks |-> names, runs_per_task |-> runs,
     baseline |-> "without_agent.to_dict()",
     treatment |-> "with_agent.to_dict()",
     deltas |-> "comparison.deltas",
     statistical_significance |-> "comparison.statistical_significance"]

\* the "restore" entries that n calls of restore add to the log
RestoreEvents(n) == IF n > 0 THEN <<"restore">> ELSE <<>>

\* validate_assessor calls compare_assessor_impact(a, ...): the output
\* directory is made, the toggler and the runner are built, the with
\* statement is entered and run_benchmark starts the baseline subprocess
StartExperiment(a, inst, names, runs) ==
    LET v == verify_harbor_installed(inst)
        e == temporarily_failed_enter(tree, a)
    IN
    /\ pc = "Idle"
    /\ assessor' = a
    /\ installed' = inst
    /\ startTree' = tree
    /\ startFs' = outFs
    /\ expTasks' = names
    /\ runs_per_task' = runs
    /\ IF v # NoErr
       THEN /\ outFs' = outFs \cup {"output_dir"}
            /\ log' = log \o <<"mkdir_output", "verify_harbor">>
            /\ err' = v
            /\ failPhase' = "config"
            /\ pc' = "Aborted"
            /\ UNCHANGED <<tree, inScope, execCalls, requested>>
       ELSE IF ~e.yielded
       THEN /\ outFs' = outFs \cup {"output_dir"}
            /\ log' = log \o <<"mkdir_output", "verify_harbor", "force_fail">>
                          \o RestoreEvents(e.restores)
            /\ tree' = e.tree
            /\ err' = e.err
            /\ failPhase' = "config"
            /\ pc' = "Aborted"
            /\ UNCHANGED <<inScope, execCalls, requested>>
       ELSE /\ outFs' = outFs \cup {"output_dir", "baseline"}
            /\ log' = log \o <<"mkdir_output", "verify_harbor", "force_fail",
                               "exec_baseline">>
            /\ tree' = e.tree
            /\ inScope' = TRUE
            /\ execCalls' = execCalls + 1
            /\ requested' = Append(requested, harbor_command(names))
            /\ pc' = "BaselineRunning"
            /\ UNCHANGED <<err, failPhase>>
    /\ UNCHANGED <<togVars, scopeVars, metVars, cmpVars, cohVars,
                   parseVars, json_record, restVars>>

\* an exception exc is raised inside the with block in the baseline phase
BaselineAbort(exc, events) ==
    LET x == temporarily_failed_exit(tree, assessor, exc) IN
    /\ tree' = x.tree
    /\ inScope' = FALSE
    /\ log' = log \o events \o RestoreEvents(x.restores)
    /\ err' = x.err
    /\ failPhase' = "baseline"
    /\ pc' = "Aborted"
    /\ UNCHANGED <<assessor, installed, startTree, outFs, startFs, execCalls,
                   togVars, scopeVars, metVars, cmpVars, cohVars,
                 parseVars,
                   moreVars>>

\* the baseline run_benchmark raises
BaselineExecFails(o) ==
    /\ pc = "BaselineRunning"
    /\ BaselineAbort(ExecException(o), <<>>)

\* the baseline run_benchmark returns a results directory and
\* parse_harbor_results starts reading it
BaselineExecReturns ==
    /\ pc = "BaselineRunning"
    /\ pc' = "BaselineIngest"
    /\ log' = log \o <<"parse_baseline">>
    /\ UNCHANGED <<tree, assessor, installed, startTree, outFs, startFs,
                   inScope, execCalls, failPhase, err, togVars, scopeVars, metVars, cmpVars, cohVars,
                 parseVars,
                   moreVars>>

\* parse_harbor_results raises for the baseline results
BaselineIngestFails(i) ==
    /\ pc = "BaselineIngest"
    /\ BaselineAbort(IngestException(i), <<>>)

\* the treatment run is started while the with block is still open
BaselineIngested_TreatmentInScope ==
    /\ pc = "BaselineIngest"
    /\ log' = log \o <<"aggregate_baseline", "exec_treatment">>
    /\ outFs' = outFs \cup {"treatment"}
    /\ execCalls' = execCalls + 1
    /\ requested' = Append(requested, harbor_command(expTasks))
    /\ pc' = "TreatmentRunning"
    /\ UNCHANGED <<tree, inScope, err, failPhase, assessor, installed,
                   startTree, startFs, togVars, scopeVars, metVars, cmpVars,
                   cohVars, parseVars, expTasks, runs_per_task, json_record,
                   restVars>>

\* the with block is left before the baseline results are aggregated
BaselineIngested_AggregateOutside ==
    LET x == temporarily_failed_exit(tree, assessor, NoErr) IN
    /\ pc = "BaselineIngest"
    /\ tree' = x.tree
    /\ inScope' = FALSE
    /\ log' = log \o RestoreEvents(x.restores)
                  \o <<"aggregate_baseline", "exec_treatment">>
    /\ outFs' = outFs \cup {"treatment"}
    /\ execCalls' = execCalls + 1
    /\ requested' = Append(requested, harbor_command(expTasks))
    /\ pc' = "TreatmentRunning"
    /\ UNCHANGED <<err, failPhase, assessor, installed, startTree, startFs,
                   togVars, scopeVars, metVars, cmpVars, cohVars,
                   parseVars, expTasks, runs_per_task, json_record, restVars>>

\* parse_harbor_results returns the baseline trials: from_task_results
\* aggregates them, the with block is left, and run_benchmark starts the
\* treatment subprocess
BaselineIngested ==
    LET x == temporarily_failed_exit(tree, assessor, NoErr) IN
    /\ pc = "BaselineIngest"
    /\ tree' = x.tree
    /\ inScope' = FALSE
    /\ IF x.err # NoErr
       THEN /\ log' = log \o <<"aggregate_baseline">> \o RestoreEvents(x.restores)
            /\ err' = x.err
            /\ failPhase' = "baseline"
            /\ pc' = "Aborted"
            /\ UNCHANGED <<outFs, execCalls, requested>>
       ELSE /\ log' = log \o <<"aggregate_baseline">> \o RestoreEvents(x.restores)
                          \o <<"exec_treatment">>
            /\ outFs' = outFs \cup {"treatment"}
            /\ execCalls' = execCalls + 1
            /\ requested' = Append(requested, harbor_command(expTasks))
            /\ pc' = "TreatmentRunning"
            /\ UNCHANGED <<err, failPhase>>
    /\ UNCHANGED <<assessor, installed, startTree, startFs, togVars,
                   scopeVars, metVars, cmpVars, cohVars, parseVars, expTasks,
                   runs_per_task, json_record, restVars>>

\* an exception exc is raised in the treatment phase, outside any with block
TreatmentAbort(exc) ==
    /\ err' = exc
    /\ failPhase' = "treatment"
    /\ pc' = "Aborted"
    /\ UNCHANGED <<tree, assessor, installed, startTree, outFs, startFs,
                   inScope, log, execCalls, togVars, scopeVars, metVars, cmpVars, cohVars,
                 parseVars,
                   moreVars>>

\* the treatment run_benchmark raises
TreatmentExecFails(o) ==
    /\ pc = "TreatmentRunning"
    /\ TreatmentAbort(ExecException(o))

\* the treatment run_benchmark returns a results directory and
\* parse_harbor_results starts reading it
TreatmentExecReturns ==
    /\ pc = "TreatmentRunning"
    /\ pc' = "TreatmentIngest"
    /\ log' = log \o <<"parse_treatment">>
    /\ UNCHANGED <<tree, assessor, installed, startTree, outFs, startFs,
                   inScope, execCalls, failPhase, err, togVars, scopeVars, metVars, cmpVars, cohVars,
                 parseVars,
                   moreVars>>

\* parse_harbor_results raises for the treatment results
TreatmentIngestFails(i) ==
    /\ pc = "TreatmentIngest"
    /\ TreatmentAbort(IngestException(i))

\* what is left of <assessor>.json when json.dump raises part-way
TruncatedJson == [truncated |-> TRUE]

\* the exception that ends validate_assessor while it writes a file
PersistException == [kind |-> "OSError"]

\* the treatment trials are aggregated and compared, and writing the JSON
\* record (at = "json") or the Markdown report (at = "md") raises:
\* validate_assessor reports "Validation failed" and aborts
TreatmentIngested_PersistFails(at) ==
    /\ pc = "TreatmentIngest"
    /\ log' = log \o <<"aggregate_treatment", "compare", "write_json">>
                  \o (IF at = "md" THEN <<"write_md">> ELSE <<>>)
    /\ outFs' = outFs \cup (IF at = "md" THEN {"json", "md"} ELSE {"json"})
    /\ json_record' = IF at = "md"
                      THEN json_results(assessor, expTasks, runs_per_task)
                      ELSE TruncatedJson
    /\ err' = PersistException
    /\ failPhase' = "persist"
    /\ pc' = "Aborted"
    /\ UNCHANGED <<tree, assessor, installed, startTree, startFs, inScope,
                   execCalls, togVars, scopeVars, metVars, cmpVars, cohVars,
                   parseVars, expTasks, runs_per_task, requested, restVars>>

\* the files are written before the comparison is computed
TreatmentIngested_persist_first ==
    /\ pc = "TreatmentIngest"
    /\ log' = log \o <<"aggregate_treatment", "write_json", "write_md", "compare">>
    /\ outFs' = outFs \cup {"json", "md"}
    /\ json_record' = json_results(assessor, expTasks, runs_per_task)
    /\ pc' = "Persisted"
    /\ UNCHANGED <<tree, assessor, installed, startTree, startFs, inScope,
                   execCalls, failPhase, err, togVars, scopeVars, metVars,
                   cmpVars, cohVars, parseVars, expTasks, runs_per_task,
                   requested, restVars>>

\* parse_harbor_results returns the treatment trials: they are aggregated,
\* compare_runs builds the comparison, and validate_assessor writes the
\* JSON record and the Markdown report
TreatmentIngested ==
    /\ pc = "TreatmentIngest"
    /\ log' = log \o <<"aggregate_treatment", "compare", "write_json", "write_md">>
    /\ outFs' = outFs \cup {"json", "md"}
    /\ json_record' = json_results(assessor, expTasks, runs_per_task)
    /\ pc' = "Persisted"
    /\ UNCHANGED <<tree, assessor, installed, startTree, startFs, inScope,
                   execCalls, failPhase, err, togVars, scopeVars, metVars,
                   cmpVars, cohVars, parseVars, expTasks, runs_per_task,
                   requested, restVars>>

InitOrch ==
    /\ tree \in InitTrees
    /\ outFs \in {{}, {"output_dir"}}
    /\ TogglerIdle /\ ScopeIdle /\ OrchIdle /\ MetricsIdle
    /\ CompareIdle /\ CohensDIdle /\ ParseIdle /\ MoreIdle

NextOrch ==
    \/ \E a \in AssessorIds, inst \in BOOLEAN, names \in TaskLists,
          runs \in RunsPerTask :
           StartExperiment(a, inst, names, runs)
    \/ \E o \in ExecFailures : BaselineExecFails(o)
    \/ BaselineExecReturns
    \/ \E i \in IngestFailures : BaselineIngestFails(i)
    \/ BaselineIngested
    \/ \E o \in ExecFailures : TreatmentExecFails(o)
    \/ TreatmentExecReturns
    \/ \E i \in IngestFailures : TreatmentIngestFails(i)
    \/ TreatmentIngested
    \/ \E at \in {"json", "md"} : TreatmentIngested_PersistFails(at)

SpecOrch == InitOrch /\ [][NextOrch]_vars

(***************************************************************************)
(* calculate_cohens_d                                                      *)
(***************************************************************************)
\* values of a sample, and the longest sample
SampleValues == {1, 2, 3}
MaxSample == 2
Samples == UNION {[1..n -> SampleValues] : n \in 0..MaxSample}

RECURSIVE Sum(_)
Sum(g) == IF g = <<>> THEN 0 ELSE Head(g) + Sum(Tail(g))

\* sum(group) / len(group)
mean(g) == Norm(Quot(Sum(g), Len(g)))

\* sum((x - mean) ** 2 for x in group), times len(group) ** 2:
\* (x - S/n) ** 2 = (n*x - S) ** 2 / n ** 2
RECURSIVE SumSqDev(_, _, _)
SumSqDev(g, S, n) ==
    IF g = <<>> THEN 0
    ELSE (n * Head(g) - S) * (n * Head(g) - S) + SumSqDev(Tail(g), S, n)

\* sum((x - mean) ** 2 for x in group) / len(group)
variance(g) ==
    Norm(Quot(SumSqDev(g, Sum(g), Len(g)), Len(g) * Len(g) * Len(g)))

\* return None
NoneD == [computed |-> TRUE, defined |-> FALSE, diff |-> Zero, pooled_var |-> Zero]

\* the spread of the first group alone stands for the pooled one
calculate_cohens_d_unpooled(g1, g2) ==
    IF g1 = <<>> \/ g2 = <<>> THEN NoneD
    ELSE LET mean1 == mean(g1)
             mean2 == mean(g2)
             var1 == variance(g1)
             pooled_var == var1
         IN IF pooled_var.num = 0 THEN NoneD
            ELSE [computed |-> TRUE, defined |-> TRUE,
                  diff |-> RSub(mean2, mean1), pooled_var |-> pooled_var]

\* calculate_cohens_d(group1, group2): the value (mean2 - mean1) /
\* pooled_std is kept as its numerator diff and the square pooled_var of
\* its denominator, pooled_std = pooled_var ** 0.5
calculate_cohens_d(g1, g2) ==
    IF g1 = <<>> \/ g2 = <<>> THEN NoneD
    ELSE LET mean1 == mean(g1)
             mean2 == mean(g2)
             var1 == variance(g1)
             var2 == variance(g2)
             pooled_var == RDiv(RAdd(var1, var2), Quot(2, 1))
         IN IF pooled_var.num = 0 THEN NoneD
            ELSE [computed |-> TRUE, defined |-> TRUE,
                  diff |-> RSub(mean2, mean1), pooled_var |-> pooled_var]

\* calculate_cohens_d(group1, group2) is called
CohensD ==
    /\ effect = NotComputed
    /\ effect' = calculate_cohens_d(group1, group2)
    /\ UNCHANGED <<tree, togVars, scopeVars, orchVars, metVars, cmpVars,
                   parseVars, group1, group2, effectSwapped,
                   moreVars>>

\* calculate_cohens_d(group2, group1) is called
CohensDSwapped ==
    /\ effectSwapped = NotComputed
    /\ effectSwapped' = calculate_cohens_d(group2, group1)
    /\ UNCHANGED <<tree, togVars, scopeVars, orchVars, metVars, cmpVars,
                   parseVars, group1, group2, effect,
                   moreVars>>

InitCohensD ==
    /\ tree = [p \in Paths |-> ABSENT] /\ outFs = {}
    /\ TogglerIdle /\ ScopeIdle /\ OrchIdle /\ MetricsIdle
    /\ CompareIdle /\ ParseIdle /\ MoreIdle
    /\ group1 \in Samples /\ group2 \in Samples
    /\ effect = NotComputed /\ effectSwapped = NotComputed

NextCohensD ==
    \/ CohensD
    \/ CohensDSwapped

SpecCohensD == InitCohensD /\ [][NextCohensD]_vars

(***************************************************************************)
(* HarborComparison and compare_runs                                       *)
(***************************************************************************)
\* an Optional[float]
NoneF == [null |-> TRUE, value |-> Zero]
Some(x) == [null |-> FALSE, value |-> x]

\* avg_duration_delta_sec etc. are baseline minus treatment
calculate_deltas_swapped(without, with) ==
    LET success_rate_delta == RSub(without.success_rate, with.success_rate)
        completion_rate_delta ==
            RSub(without.completion_rate, with.completion_rate)
        duration_delta_sec ==
            RSub(without.avg_duration_sec, with.avg_duration_sec)
        successful_tasks_delta ==
            without.successful_tasks - with.successful_tasks
        duration_delta_pct ==
            IF RPos(without.avg_duration_sec)
            THEN Some(RMul(RDiv(duration_delta_sec, without.avg_duration_sec),
                           Quot(100, 1)))
            ELSE NoneF
    IN [success_rate_delta |-> success_rate_delta,
        completion_rate_delta |-> completion_rate_delta,
        avg_duration_delta_sec |-> duration_delta_sec,
        avg_duration_delta_pct |-> duration_delta_pct,
        successful_tasks_delta |-> successful_tasks_delta]

\* HarborComparison.calculate_deltas
calculate_deltas(without, with) ==
    LET success_rate_delta == RSub(with.success_rate, without.success_rate)
        completion_rate_delta ==
            RSub(with.completion_rate, without.completion_rate)
        duration_delta_sec ==
            RSub(with.avg_duration_sec, without.avg_duration_sec)
        successful_tasks_delta ==
            with.successful_tasks - without.successful_tasks
        duration_delta_pct ==
            IF RPos(without.avg_duration_sec)
            THEN Some(RMul(RDiv(duration_delta_sec, without.avg_duration_sec),
                           Quot(100, 1)))
            ELSE NoneF
    IN [success_rate_delta |-> success_rate_delta,
        completion_rate_delta |-> completion_rate_delta,
        avg_duration_delta_sec |-> duration_delta_sec,
        avg_duration_delta_pct |-> duration_delta_pct,
        successful_tasks_delta |-> successful_tasks_delta]

\* one arm of a per-task row: None, or success and duration_sec
NoSide == [null |-> TRUE, success |-> FALSE, duration_sec |-> 0]
Side(r) == [null |-> FALSE, success |-> r.success, duration_sec |-> r.duration_sec]
NoTaskDelta ==
    [success_improved |-> FALSE, duration_delta_sec |-> 0,
     duration_delta_pct |-> NoneF]

\* HarborComparison._calculate_task_delta
calculate_task_delta(without_result, with_result) ==
    LET duration_delta_sec ==
            with_result.duration_sec - without_result.duration_sec
    IN [success_improved |-> with_result.success /\ ~without_result.success,
        duration_delta_sec |-> duration_delta_sec,
        duration_delta_pct |->
            IF without_result.duration_sec > 0
            THEN Some(Norm(Quot(duration_delta_sec * 100,
                                without_result.duration_sec)))
            ELSE NoneF]

\* {r.task_name for r in task_results}
task_names(ts) == {ts[i].task_name : i \in DOMAIN ts}
\* {r.task_name: r for r in task_results}[name]: the last result of the
\* name wins
lookup(ts, name) ==
    ts[CHOOSE i \in DOMAIN ts :
          /\ ts[i].task_name = name
          /\ \A j \in DOMAIN ts : j > i => ts[j].task_name # name]

\* the body of the loop of generate_per_task_comparison
task_row(without, with, task_name) ==
    LET in_without == task_name \in task_names(without.task_results)
        in_with == task_name \in task_names(with.task_results)
    IN [task_name |-> task_name,
        keys |-> {"task_name", "without_agent", "with_agent"}
                 \cup (IF in_without /\ in_with THEN {"delta"} ELSE {}),
        without_agent |-> IF in_without
                          THEN Side(lookup(without.task_results, task_name))
                          ELSE NoSide,
        with_agent |-> IF in_with
                       THEN Side(lookup(with.task_results, task_name))
                       ELSE NoSide,
        delta |-> IF in_without /\ in_with
                  THEN calculate_task_delta(
                           lookup(without.task_results, task_name),
                           lookup(with.task_results, task_name))
                  ELSE NoTaskDelta]

\* only the tasks of the baseline arm get a row
generate_per_task_comparison_baseline_only(without, with, order) ==
    LET all_task_names == task_names(without.task_results)
        iteration == SelectSeq(order, LAMBDA n : n \in all_task_names)
    IN [i \in DOMAIN iteration |-> task_row(without, with, iteration[i])]

\* HarborComparison.generate_per_task_comparison; order is the order in
\* which this process iterates over a set of task names
generate_per_task_comparison(without, with, order) ==
    LET all_task_names == task_names(without.task_results)
                              \cup task_names(with.task_results)
        iteration == SelectSeq(order, LAMBDA n : n \in all_task_names)
    IN [i \in DOMAIN iteration |-> task_row(without, with, iteration[i])]

\* a p-value of stats.ttest_ind and the flag p_value < alpha are kept as
\* the terms they are computed from
NoneP == [null |-> TRUE, sample1 |-> <<>>, sample2 |-> <<>>]
ttest_ind(a, b) == [null |-> FALSE, sample1 |-> a, sample2 |-> b]
False == [computed |-> FALSE, p_value |-> NoneP]
less_than_alpha(p) == [computed |-> TRUE, p_value |-> p]

RECURSIVE successes(_)
successes(ts) ==
    IF ts = <<>> THEN <<>>
    ELSE <<IF Head(ts).success THEN 1 ELSE 0>> \o successes(Tail(ts))
RECURSIVE durations(_)
durations(ts) ==
    IF ts = <<>> THEN <<>>
    ELSE (IF truthy(Head(ts).agent_result)
          THEN <<Head(ts).duration_sec>> ELSE <<>>) \o durations(Tail(ts))

\* the tests of calculate_statistical_significance once scipy is imported
significance_tests(without, with) ==
    LET without_successes == successes(without.task_results)
        with_successes == successes(with.task_results)
        without_durations == durations(without.task_results)
        with_durations == durations(with.task_results)
        rate_tested == Len(without_successes) > 0 /\ Len(with_successes) > 0
        duration_tested ==
            Len(without_durations) > 0 /\ Len(with_durations) > 0
        rate_p == ttest_ind(without_successes, with_successes)
        duration_p == ttest_ind(without_durations, with_durations)
    IN [keys |-> {"success_rate_significant", "success_rate_p_value",
                  "duration_significant", "duration_p_value",
                  "duration_cohens_d"},
        success_rate_significant |->
            IF rate_tested THEN less_than_alpha(rate_p) ELSE False,
        success_rate_p_value |-> IF rate_tested THEN rate_p ELSE NoneP,
        duration_significant |->
            IF duration_tested THEN less_than_alpha(duration_p) ELSE False,
        duration_p_value |-> IF duration_tested THEN duration_p ELSE NoneP,
        duration_cohens_d |->
            IF duration_tested
            THEN calculate_cohens_d(without_durations, with_durations)
            ELSE NoneD]

\* the tests run whether or not scipy was imported
calculate_statistical_significance_unguarded(without, with, scipy_imports) ==
    significance_tests(without, with)

\* calculate_statistical_significance
calculate_statistical_significance(without, with, scipy_imports) ==
    IF ~scipy_imports
    THEN [keys |-> {"success_rate_significant", "success_rate_p_value",
                    "duration_significant", "duration_p_value"},
          success_rate_significant |-> False,
          success_rate_p_value |-> NoneP,
          duration_significant |-> False,
          duration_p_value |-> NoneP,
          duration_cohens_d |-> NotComputed]
    ELSE significance_tests(without, with)

\* compare_runs, in a process that imports scipy or not, iterates sets in
\* the given order and reads the clock at instant
compare_runs(without, with, scipy_imports, order, instant) ==
    [computed |-> TRUE,
     without_agent |-> without,
     with_agent |-> with,
     deltas |-> calculate_deltas(without, with),
     per_task_comparison |-> generate_per_task_comparison(without, with, order),
     statistical_significance |->
         calculate_statistical_significance(without, with, scipy_imports),
     created_at |-> instant]

\* the tasks of the two arms and the trial records they ran
ArmTasks == {"A", "B", "C"}
ArmRecord(task, verifier, finished) ==
    [task_name |-> task, trial_name |-> "trial", keys |-> {"exception_info"},
     agent_result |-> Object, verifier_result |-> verifier,
     exception_info |-> Null, started_at |-> 0, finished_at |-> finished,
     duration_sec |-> 60]
ArmData ==
    {ArmRecord("A", Object, 120), ArmRecord("A", Null, 180),
     ArmRecord("B", Object, 120), ArmRecord("C", Object, 120)}

\* trial records by their agent output: an object with keys, the empty
\* object of "agent_result": {}, and null
EmptyObject == [null |-> FALSE, keys |-> {}, exception_type |-> <<>>]
OutputData ==
    {[ArmRecord("A", Object, 120) EXCEPT !.agent_result = o] :
        o \in {Object, EmptyObject, Null}}
\* most trials of an arm
MaxArm == 2
\* orders in which a process iterates over a set of task names
HashSeeds == {<<"A", "B", "C">>, <<"C", "B", "A">>}
\* instants of the wall clock
Instants == {0, 1}

\* one more trial is aggregated into the baseline arm
AddBaselineTrial(rd) ==
    /\ comparison = NoComparison
    /\ Len(without_agent.task_results) < MaxArm
    /\ without_agent' = from_task_results(
           Append(without_agent.task_results, from_result_json(rd)))
    /\ UNCHANGED <<tree, togVars, scopeVars, orchVars, metVars, cohVars,
                   parseVars, with_agent, scipy, hashSeed, now, comparison,
                   prevComparison,
                   moreVars>>

\* one more trial is aggregated into the treatment arm
AddTreatmentTrial(rd) ==
    /\ comparison = NoComparison
    /\ Len(with_agent.task_results) < MaxArm
    /\ with_agent' = from_task_results(
           Append(with_agent.task_results, from_result_json(rd)))
    /\ UNCHANGED <<tree, togVars, scopeVars, orchVars, metVars, cohVars,
                   parseVars, without_agent, scipy, hashSeed, now, comparison,
                   prevComparison,
                   moreVars>>

\* compare_runs(without_agent, with_agent) is called, at most twice
CompareRuns ==
    /\ prevComparison = NoComparison
    /\ prevComparison' = comparison
    /\ comparison' = compare_runs(without_agent, with_agent, scipy, hashSeed, now)
    /\ UNCHANGED <<tree, togVars, scopeVars, orchVars, metVars, cohVars,
                   parseVars, without_agent, with_agent, scipy, hashSeed, now,
                   moreVars>>

\* time passes between the two calls
Tick ==
    /\ comparison # NoComparison /\ prevComparison = NoComparison
    /\ now + 1 \in Instants
    /\ now' = now + 1
    /\ UNCHANGED <<tree, togVars, scopeVars, orchVars, metVars, cohVars,
                   parseVars, without_agent, with_agent, scipy, hashSeed,
                   comparison, prevComparison,
                   moreVars>>

\* the second call is made by another interpreter process
RestartProcess(seed) ==
    /\ comparison # NoComparison /\ prevComparison = NoComparison
    /\ seed # hashSeed
    /\ hashSeed' = seed
    /\ UNCHANGED <<tree, togVars, scopeVars, orchVars, metVars, cohVars,
                   parseVars, without_agent, with_agent, scipy, now,
                   comparison, prevComparison,
                   moreVars>>

InitCompare ==
    /\ tree = [p \in Paths |-> ABSENT] /\ outFs = {}
    /\ TogglerIdle /\ ScopeIdle /\ OrchIdle /\ MetricsIdle
    /\ CohensDIdle /\ ParseIdle /\ MoreIdle
    /\ without_agent = from_task_results(<<>>)
    /\ with_agent = from_task_results(<<>>)
    /\ scipy \in BOOLEAN
    /\ hashSeed \in HashSeeds
    /\ now = 0
    /\ comparison = NoComparison /\ prevComparison = NoComparison

NextCompare ==
    \/ \E rd \in ArmData : AddBaselineTrial(rd)
    \/ \E rd \in ArmData : AddTreatmentTrial(rd)
    \/ CompareRuns
    \/ Tick
    \/ \E seed \in HashSeeds : RestartProcess(seed)

SpecCompare == InitCompare /\ [][NextCompare]_vars

\* arms built from trials that differ in their agent output, then compared
NextSamples ==
    \/ \E rd \in OutputData : AddBaselineTrial(rd)
    \/ \E rd \in OutputData : AddTreatmentTrial(rd)
    \/ CompareRuns

SpecSamples == InitCompare /\ [][NextSamples]_vars

(***************************************************************************)
(* parse_harbor_results                                                    *)
(***************************************************************************)
\* what a result.json holds: a well-formed record, text that is not JSON,
\* JSON that is not an object, an object without "started_at", an object
\* whose "started_at" is not an ISO timestamp
FileKinds ==
    {"valid", "invalid_json", "non_object", "missing_key", "bad_timestamp"}
\* the record of a well-formed result.json
ParseRecord ==
    [task_name |-> "task1", trial_name |-> "trial", keys |-> {"exception_info"},
     agent_result |-> Object, verifier_result |-> Object,
     exception_info |-> Null, started_at |-> 0, finished_at |-> 60,
     duration_sec |-> 60]
NoFile == "no_file"
\* subdirectories of the run directory: a trial directory has "__" in its
\* name; file is the kind of its result.json, or NoFile
Subdirs ==
    [is_trial_dir : {TRUE}, file : FileKinds \cup {NoFile}]
        \cup [is_trial_dir : {FALSE}, file : {"valid", NoFile}]
\* most subdirectories of a run directory
MaxEntries == 4

JSONDecodeError == [kind |-> "JSONDecodeError", msg |-> "invalid json"]
KeyError == [kind |-> "KeyError", msg |-> "started_at"]
TypeError == [kind |-> "TypeError", msg |-> "indices must be integers"]
IsoformatError == [kind |-> "ValueError", msg |-> "Invalid isoformat string"]
ResultsDirNotFound ==
    [kind |-> "FileNotFoundError", msg |-> "Results directory not found"]
NoResultFiles == [kind |-> "ValueError", msg |-> "No result.json files found"]
NoValidResults ==
    [kind |-> "ValueError", msg |-> "No valid task results parsed"]
\* except (json.JSONDecodeError, KeyError)
Caught == {JSONDecodeError, KeyError}

\* json.load(f) followed by HarborTaskResult.from_result_json(result_data):
\* the exception raised, or NoErr
decode_error(file) ==
    CASE file = "invalid_json" -> JSONDecodeError
      [] file = "non_object" -> TypeError
      [] file = "missing_key" -> KeyError
      [] file = "bad_timestamp" -> IsoformatError
      [] OTHER -> [kind |-> "none", msg |-> ""]

\* results_dir.glob("*/result.json"): the result.json files one level
\* down, as indices of entries; the result.json of the run directory itself
\* is index 0 and does not match
glob(dir) ==
    SelectSeq([i \in DOMAIN dir.entries |-> i],
              LAMBDA i : dir.entries[i].file # NoFile)

\* the for loop over result_files
RECURSIVE parse_loop(_, _, _)
parse_loop(dir, result_files, acc) ==
    IF result_files = <<>> THEN acc
    ELSE LET i == Head(result_files)
             e == decode_error(dir.entries[i].file)
             opened == acc.opened \cup {i}
         IN IF e.kind = "none"
            THEN parse_loop(dir, Tail(result_files),
                     [acc EXCEPT !.opened = opened,
                                 !.task_results =
                                     Append(@, from_result_json(ParseRecord))])
            ELSE IF e \in Caught
            THEN parse_loop(dir, Tail(result_files),
                     [acc EXCEPT !.opened = opened, !.warnings = @ + 1])
            ELSE [acc EXCEPT !.opened = opened, !.err = e]

\* parse_harbor_results(results_dir)
parse_harbor_results(dir) ==
    LET start == [done |-> TRUE, returned |-> FALSE, task_results |-> <<>>,
                  opened |-> {}, warnings |-> 0,
                  err |-> [kind |-> "none", msg |-> ""]]
    IN IF ~dir.exists THEN [start EXCEPT !.err = ResultsDirNotFound]
       ELSE LET all_result_files == glob(dir)
                result_files ==
                    SelectSeq(all_result_files,
                              LAMBDA i : dir.entries[i].is_trial_dir)
            IN IF result_files = <<>>
               THEN [start EXCEPT !.err = NoResultFiles]
               ELSE LET end == parse_loop(dir, result_files, start)
                    IN IF end.err.kind # "none" THEN end
                       ELSE IF end.task_results = <<>>
                       THEN [end EXCEPT !.err = NoValidResults]
                       ELSE [end EXCEPT !.returned = TRUE]

\* the run directory is created
MakeResultsDir ==
    /\ ~resultsDir.exists
    /\ resultsDir' = [resultsDir EXCEPT !.exists = TRUE]
    /\ parsed' = NotParsed
    /\ UNCHANGED <<tree, togVars, scopeVars, orchVars, metVars, cmpVars,
                   cohVars,
                   moreVars>>

\* harbor writes the job-level result.json into the run directory
WriteJobResult ==
    /\ resultsDir.exists /\ ~resultsDir.job_result
    /\ resultsDir' = [resultsDir EXCEPT !.job_result = TRUE]
    /\ parsed' = NotParsed
    /\ UNCHANGED <<tree, togVars, scopeVars, orchVars, metVars, cmpVars,
                   cohVars,
                   moreVars>>

\* a subdirectory appears in the run directory
AddSubdir(d) ==
    /\ resultsDir.exists
    /\ Len(resultsDir.entries) < MaxEntries
    /\ resultsDir' = [resultsDir EXCEPT !.entries = Append(@, d)]
    /\ parsed' = NotParsed
    /\ UNCHANGED <<tree, togVars, scopeVars, orchVars, metVars, cmpVars,
                   cohVars,
                   moreVars>>

\* parse_harbor_results(results_dir) is called
ParseHarborResults ==
    /\ parsed = NotParsed
    /\ parsed' = parse_harbor_results(resultsDir)
    /\ UNCHANGED <<tree, togVars, scopeVars, orchVars, metVars, cmpVars,
                   cohVars, resultsDir,
                   moreVars>>

InitParse ==
    /\ tree = [p \in Paths |-> ABSENT] /\ outFs = {}
    /\ TogglerIdle /\ ScopeIdle /\ OrchIdle /\ MetricsIdle
    /\ CompareIdle /\ CohensDIdle /\ ParseIdle /\ MoreIdle

NextParse ==
    \/ MakeResultsDir
    \/ WriteJobResult
    \/ \E d \in Subdirs : AddSubdir(d)
    \/ ParseHarborResults

SpecParse == InitParse /\ [][NextParse]_vars

(***************************************************************************)
(* Properties of the toggler                                               *)
(***************************************************************************)
\* the last thing that happened is the direct call op(a)
JustCalled(op, a) == scopePc = "out" /\ lastOp = <<op, a>>

\* C1: for every supported criterion, temporarily_failed runs restore on
\* every way of leaving the body and the body's exception propagates; when
\* the target existed at entry and the body touched neither path, the target
\* is present and the backup is absent after the scope exits.
C1_ScopeRestores ==
    (scopePc = "exited" /\ scopeId \in MANIPULATIONS) =>
        /\ restoreRuns = 1
        /\ propagated = BodyException(bodyOutcome)
        /\ (exists(entryTree, Target(scopeId)) /\ ~bodyTouched) =>
              /\ exists(tree, Target(scopeId))
              /\ ~exists(tree, Backup(scopeId))

\* C6: for each registered criterion and every working tree, a second
\* force_fail right after a force_fail, and a second restore right after a
\* restore, raises nothing and leaves the tree as the first call left it.
C6_Idempotent ==
    \A a \in MANIPULATIONS :
        \A op \in {"force_fail", "restore"} :
            (JustCalled(op, a) /\ prevOp = <<op, a>>) =>
                (tree = prevTree /\ lastErr = NoErr)

\* the first force_fail moved the target away and a second one followed
C6_Witness ==
    \E a \in MANIPULATIONS :
        /\ JustCalled("force_fail", a) /\ prevOp = <<"force_fail", a>>
        /\ prev2Tree[Target(a)] = "orig" /\ ~exists(prev2Tree, Backup(a))
        /\ tree[Backup(a)] = "orig" /\ ~exists(tree, Target(a))

\* C7: for each registered criterion whose target exists, force_fail then
\* restore is a round trip: the target holds its old content again and no
\* backup exists; in between the target is absent and the backup holds the
\* content.
C7_RoundTrip ==
    \A a \in MANIPULATIONS :
        (/\ prevOp = <<"force_fail", a>>
         /\ JustCalled("restore", a)
         /\ exists(prev2Tree, Target(a))) =>
            /\ tree[Target(a)] = prev2Tree[Target(a)]
            /\ ~exists(tree, Backup(a))
            /\ ~exists(prevTree, Target(a))
            /\ prevTree[Backup(a)] = prev2Tree[Target(a)]

\* C8: force_fail, restore and temporarily_failed with an unregistered id
\* raise the "Unknown assessor" ValueError that lists the registered ids,
\* and move no target or backup path.
C8_UnknownAssessor ==
    /\ (\E op \in {"force_fail", "restore"} : JustCalled(op, UnknownId)) =>
          /\ lastErr.kind = "ValueError"
          /\ lastErr.text = "Unknown assessor"
          /\ lastErr.id = lastOp[2]
          /\ lastErr.available = RegisteredIds
          /\ tree = prevTree
    /\ (scopePc # "out" /\ scopeId \notin MANIPULATIONS) =>
          /\ scopePc = "raised"
          /\ propagated = UnknownAssessor(scopeId)
          /\ tree = entryTree

\* restore was called with an unregistered id while a criterion was forced
\* to fail: the ValueError was raised and the moved target stayed moved
C8_Witness ==
    /\ JustCalled("restore", UnknownId)
    /\ prevOp = <<"force_fail", "readme_structure">>
    /\ prevTree # prev2Tree
    /\ lastErr = UnknownAssessor(UnknownId)

(***************************************************************************)
(* Properties of the experiment                                            *)
(***************************************************************************)
Has(e) == \E i \in DOMAIN log : log[i] = e
\* every e1 in the log comes before every e2, and there is an e1
Before(e1, e2) ==
    /\ Has(e1)
    /\ \A i, j \in DOMAIN log : (log[i] = e1 /\ log[j] = e2) => i < j
\* the criterion passed when the experiment started
PassingAtStart == assessor \in MANIPULATIONS /\ exists(startTree, Target(assessor))
CleanAtStart == PassingAtStart /\ ~exists(startTree, Backup(assessor))

\* C2: the treatment benchmark never starts before the baseline force-fail
\* scope has exited and its restore has run, whether the baseline phase
\* succeeds or fails; the treatment never runs with the scope still open.
C2_TreatmentAfterScope ==
    /\ pc \in {"TreatmentRunning", "TreatmentIngest"} => ~inScope
    /\ Has("exec_treatment") =>
          /\ Before("exec_baseline", "restore")
          /\ Before("restore", "exec_treatment")
    /\ failPhase = "baseline" => ~Has("exec_treatment")

\* the treatment benchmark runs after a baseline that really moved the target
C2_Witness ==
    /\ pc = "TreatmentRunning" /\ CleanAtStart
    /\ tree = startTree /\ execCalls = 2

\* C3: a failure of the Executor or the Ingester in the baseline phase leaves
\* the repository restored (restore has run), aborts the experiment with the
\* failure propagated, starts no further benchmark and produces no
\* comparison; a failure in the treatment phase aborts likewise with the
\* repository restored.
C3_FailureAborts ==
    /\ failPhase = "baseline" =>
          /\ pc = "Aborted" /\ ~inScope
          /\ log[Len(log)] = "restore"
          /\ err.kind \in {"CalledProcessError", "ValueError",
                           "KeyboardInterrupt", "FileNotFoundError"}
          /\ execCalls = 1
          /\ ~Has("exec_treatment") /\ ~Has("compare")
          /\ PassingAtStart => tree = startTree
    /\ failPhase = "treatment" =>
          /\ pc = "Aborted" /\ ~inScope
          /\ Has("restore")
          /\ err.kind \in {"CalledProcessError", "ValueError",
                           "KeyboardInterrupt", "FileNotFoundError"}
          /\ execCalls = 2
          /\ ~Has("compare")
          /\ PassingAtStart => tree = startTree

\* the baseline benchmark exited non-zero after the target had been moved
C3_Witness ==
    /\ failPhase = "baseline" /\ err.kind = "CalledProcessError"
    /\ CleanAtStart /\ exists(tree, Target(assessor))

\* C4: from every starting tree in which the target exists, with or without
\* a leftover backup, the target is absent while the baseline benchmark runs,
\* and while the treatment benchmark runs the target holds its original
\* content and no backup path remains.
C4_ArmStates ==
    PassingAtStart =>
        /\ pc = "BaselineRunning" => ~exists(tree, Target(assessor))
        /\ pc = "TreatmentRunning" =>
              /\ tree[Target(assessor)] = startTree[Target(assessor)]
              /\ ~exists(tree, Backup(assessor))

\* C5 as stated: the baseline results are ingested and aggregated only after
\* the force-fail scope has exited and restore has run.
C5_IngestAfterRestore ==
    /\ pc = "BaselineIngest" => ~inScope
    /\ Has("parse_baseline") => Before("restore", "parse_baseline")
    /\ Has("aggregate_baseline") => Before("restore", "aggregate_baseline")

\* C5 amended: in a successful baseline phase the baseline results are
\* ingested and aggregated inside the force-fail scope, while the criterion
\* is still forced to fail; the scope exits (restore runs) right after the
\* aggregation and before the treatment benchmark starts.
C5_IngestInsideScope ==
    /\ pc = "BaselineIngest" =>
          /\ inScope /\ ~Has("restore")
          /\ CleanAtStart => ~exists(tree, Target(assessor))
    /\ Has("aggregate_baseline") =>
          /\ Before("exec_baseline", "parse_baseline")
          /\ Before("parse_baseline", "aggregate_baseline")
          /\ Before("aggregate_baseline", "restore")
    /\ Has("exec_treatment") =>
          /\ Has("aggregate_baseline")
          /\ Before("restore", "exec_treatment")

\* a successful baseline phase: aggregated, restored, treatment started
C5_Witness ==
    /\ Has("aggregate_baseline") /\ Has("exec_treatment")
    /\ CleanAtStart /\ ~inScope
    /\ tree[Target(assessor)] = "orig"

\* C9 as stated: with an unknown criterion or the tool not installed, nothing
\* has been moved, no directory or file has been created and no benchmark
\* has been started when the error is raised.
C9_NothingCreated ==
    failPhase = "config" =>
        /\ tree = startTree
        /\ outFs = startFs
        /\ execCalls = 0

\* C9 amended: with an unknown criterion or the tool not installed, the
\* experiment aborts with that error before any criterion path is moved and
\* before any benchmark is started; only the output directory may have been
\* created by then.
C9_ConfigErrorBeforeToggle ==
    (pc # "Idle" /\ (~installed \/ assessor \notin MANIPULATIONS)) =>
        /\ pc = "Aborted" /\ failPhase = "config"
        /\ err = IF ~installed THEN HarborNotInstalled
                 ELSE UnknownAssessor(assessor)
        /\ tree = startTree
        /\ ~inScope
        /\ execCalls = 0
        /\ ~Has("exec_baseline")
        /\ (outFs \ startFs) \subseteq {"output_dir"}

\* the tool is missing, the criterion is registered and passing, and the
\* output directory has been made
C9_Witness ==
    /\ pc = "Aborted" /\ ~installed
    /\ PassingAtStart
    /\ outFs \ startFs = {"output_dir"}

(***************************************************************************)
(* Properties of the metrics                                               *)
(***************************************************************************)
\* C10: for every list of trial results, from_task_results returns counts
\* with successful_tasks + failed_tasks + timed_out_tasks = total_tasks.
C10_CountsAddUp ==
    metrics.computed =>
        metrics.successful_tasks + metrics.failed_tasks
            + metrics.timed_out_tasks = metrics.total_tasks

\* a trial whose exception has a type name containing "timeout", in any
\* letter case
HasTimeoutException(r) ==
    /\ ~r.exception_info.null
    /\ "exception_type" \in r.exception_info.keys
    /\ contains(TimeoutStr, lower(r.exception_info.exception_type))

\* C11: every non-successful trial is counted in exactly one of two classes:
\* as timed out iff it has an exception whose type name contains "timeout"
\* in any letter case, and as an ordinary failure otherwise (no exception,
\* or an exception of any other type).
C11_TwoClasses ==
    metrics.computed =>
        LET ts == metrics.task_results
            timedOut == {i \in DOMAIN ts :
                            ~ts[i].success /\ HasTimeoutException(ts[i])}
            ordinary == {i \in DOMAIN ts :
                            ~ts[i].success /\ ~HasTimeoutException(ts[i])}
        IN /\ metrics.timed_out_tasks = Cardinality(timedOut)
           /\ metrics.failed_tasks = Cardinality(ordinary)

\* C12: for every decoded record, success is true iff exception_info is
\* null or absent and agent_result and verifier_result are both non-null;
\* duration_sec is finished_at minus started_at, whatever duration the
\* record itself carries.
C12_SuccessAndDuration ==
    \A i \in DOMAIN trials :
        /\ trials[i].success <=>
              /\ \/ "exception_info" \notin raws[i].keys
                 \/ raws[i].exception_info.null
              /\ ~raws[i].agent_result.null
              /\ ~raws[i].verifier_result.null
        /\ trials[i].duration_sec = raws[i].finished_at - raws[i].started_at

\* a success decoded from a record without the exception_info key and
\* with a recorded duration that differs from its timestamps, next to a
\* non-success decoded from a record with an exception
C12_Witness ==
    /\ \E i \in DOMAIN trials :
          /\ trials[i].success
          /\ "exception_info" \notin raws[i].keys
          /\ raws[i].duration_sec # trials[i].duration_sec
    /\ \E j \in DOMAIN trials :
          /\ ~trials[j].success
          /\ ~raws[j].exception_info.null
          /\ ~raws[j].agent_result.null /\ ~raws[j].verifier_result.null

\* C13: success rate = successful / total * 100 and completion rate =
\* (successful + ordinary failures) / total * 100, only timed-out trials
\* being left out of the numerator, both 0.0 for the empty list; the mean
\* duration is taken over the trials whose agent output is non-null and is
\* 0.0 when there is none.
C13_Rates ==
    metrics.computed =>
        LET ts == metrics.task_results
            total == Len(ts)
            successful == {i \in DOMAIN ts : ts[i].success}
            timedOut == {i \in DOMAIN ts :
                            ~ts[i].success /\ HasTimeoutException(ts[i])}
            withOutput == SelectSeq(ts, LAMBDA r : ~r.agent_result.null)
        IN /\ REq(metrics.success_rate,
                  IF total = 0 THEN Zero
                  ELSE Quot(Cardinality(successful) * 100, total))
           /\ REq(metrics.completion_rate,
                  IF total = 0 THEN Zero
                  ELSE Quot((total - Cardinality(timedOut)) * 100, total))
           /\ REq(metrics.avg_duration_sec,
                  IF withOutput = <<>> THEN Zero
                  ELSE Quot(SumDurations(withOutput), Len(withOutput)))

(***************************************************************************)
(* Properties of the effect size                                           *)
(***************************************************************************)
\* the sign of a quotient
Sign(x) == IF x.num > 0 THEN 1 ELSE IF x.num < 0 THEN 0 - 1 ELSE 0

\* d1 == -d2 for two defined effect sizes diff / pooled_var ** 0.5:
\* opposite signs and equal squares
Opposite(d1, d2) ==
    /\ Sign(d1.diff) = 0 - Sign(d2.diff)
    /\ REq(RMul(RMul(d1.diff, d1.diff), d2.pooled_var),
           RMul(RMul(d2.diff, d2.diff), d1.pooled_var))

\* every value of the sample is the same, so its variance is zero
Constant(g) == \A i, j \in DOMAIN g : g[i] = g[j]

\* C16: calculate_cohens_d is antisymmetric, d(A, B) == -d(B, A) wherever
\* it is defined; it is None exactly when a sample is empty or the pooled
\* standard deviation is zero, as for d([], [1, 2]) and d([1, 1], [1, 1]),
\* and then d(B, A) is None too.
C16_Antisymmetric ==
    (effect.computed /\ effectSwapped.computed) =>
        /\ effect.defined <=> effectSwapped.defined
        /\ effect.defined => Opposite(effect, effectSwapped)
        /\ ~effect.defined <=>
              \/ group1 = <<>> \/ group2 = <<>>
              \/ Constant(group1) /\ Constant(group2)
        /\ (group1 = <<>> /\ group2 = <<1, 2>>) => ~effect.defined
        /\ (group1 = <<1, 1>> /\ group2 = <<1, 1>>) => ~effect.defined

\* both calls returned an effect size other than zero for two samples of
\* different spread
C16_Witness ==
    /\ effect.computed /\ effectSwapped.computed
    /\ effect.defined /\ effect.diff.num # 0
    /\ Constant(group1) /\ ~Constant(group2)

(***************************************************************************)
(* Properties of the comparison                                            *)
(***************************************************************************)
\* C14: every delta is treatment minus baseline (success rate, completion
\* rate, mean duration, success count); the percentage duration delta is
\* duration delta / baseline mean duration * 100 when the baseline mean
\* duration is > 0 and None otherwise.  Baseline 1/2 successes at 150 s and
\* treatment 2/2 at 120 s give +50.0, -30 s and -20 %.
C14_Deltas ==
    comparison.computed =>
        LET w == comparison.without_agent
            t == comparison.with_agent
            d == comparison.deltas
        IN /\ REq(RAdd(w.success_rate, d.success_rate_delta), t.success_rate)
           /\ REq(RAdd(w.completion_rate, d.completion_rate_delta),
                  t.completion_rate)
           /\ REq(RAdd(w.avg_duration_sec, d.avg_duration_delta_sec),
                  t.avg_duration_sec)
           /\ w.successful_tasks + d.successful_tasks_delta = t.successful_tasks
           /\ RPos(w.avg_duration_sec) =>
                 /\ ~d.avg_duration_delta_pct.null
                 /\ REq(RMul(d.avg_duration_delta_pct.value, w.avg_duration_sec),
                        RMul(d.avg_duration_delta_sec, Quot(100, 1)))
           /\ ~RPos(w.avg_duration_sec) => d.avg_duration_delta_pct.null
           /\ ( /\ w.successful_tasks = 1 /\ w.total_tasks = 2
                /\ REq(w.avg_duration_sec, Quot(150, 1))
                /\ t.successful_tasks = 2 /\ t.total_tasks = 2
                /\ REq(t.avg_duration_sec, Quot(120, 1)) ) =>
                 /\ REq(d.success_rate_delta, Quot(50, 1))
                 /\ REq(d.avg_duration_delta_sec, Quot(0 - 30, 1))
                 /\ REq(d.avg_duration_delta_pct.value, Quot(0 - 20, 1))

\* baseline 1/2 successes at 150 s and treatment 2/2 at 120 s are compared
C14_Witness ==
    /\ comparison.computed
    /\ comparison.without_agent.successful_tasks = 1
    /\ comparison.without_agent.total_tasks = 2
    /\ REq(comparison.without_agent.avg_duration_sec, Quot(150, 1))
    /\ comparison.with_agent.successful_tasks = 2
    /\ comparison.with_agent.total_tasks = 2
    /\ REq(comparison.with_agent.avg_duration_sec, Quot(120, 1))

\* the trial results of a task in one arm of a comparison
ResultsOf(ts, name) == {ts[i] : i \in {j \in DOMAIN ts : ts[j].task_name = name}}

C18_Deterministic ==
    ( /\ comparison.computed /\ prevComparison.computed
      /\ comparison.without_agent = prevComparison.without_agent
      /\ comparison.with_agent = prevComparison.with_agent ) =>
        comparison = prevComparison

(***************************************************************************)
(* Properties of the parser                                                *)
(***************************************************************************)
\* the trial subdirectories with a result.json, well-formed and malformed
TrialRecords(dir) ==
    {i \in DOMAIN dir.entries :
        dir.entries[i].is_trial_dir /\ dir.entries[i].file # NoFile}
WellFormed(dir) == {i \in TrialRecords(dir) : dir.entries[i].file = "valid"}
Malformed(dir) == TrialRecords(dir) \ WellFormed(dir)

\* C19: every malformed trial record (not JSON, not an object of the
\* expected shape, missing required field, unparseable timestamp) is
\* skipped with a warning and without raising, and exactly one result is
\* returned for each well-formed trial subdirectory.
C19_SkipsMalformed ==
    (parsed.done /\ WellFormed(resultsDir) # {}) =>
        /\ parsed.returned /\ parsed.err.kind = "none"
        /\ Len(parsed.task_results) = Cardinality(WellFormed(resultsDir))
        /\ parsed.warnings = Cardinality(Malformed(resultsDir))

\* C20: only trial subdirectories are scanned, the result.json of the run
\* directory is never decoded; whenever zero trials are decoded (empty
\* directory, no trial subdirectory, every record malformed) the call
\* fails with the "no valid results" error; an empty list is never
\* returned.
C20_NoValidResults ==
    (parsed.done /\ resultsDir.exists) =>
        /\ 0 \notin parsed.opened
        /\ parsed.opened \subseteq TrialRecords(resultsDir)
        /\ parsed.returned => parsed.task_results # <<>>
        /\ WellFormed(resultsDir) = {} =>
              parsed.err \in {NoResultFiles, NoValidResults}

(***************************************************************************)
(* HarborRunner.run_benchmark                                               *)
(***************************************************************************)
\* exit codes and stderr texts of one "harbor run" subprocess
ExitCodes == {0, 1}
StderrTexts == {"", "boom"}

\* most run_benchmark calls into one output_dir
MaxRunCalls == 3

\* the timestamped directory that the n-th call's subprocess made
ResultsEntry(n) == [made_by |-> n]

\* output_dir as it may be before the first call: missing, empty, or
\* holding the directory of an earlier run
InitOutputDirs ==
    {NoOutputDir,
     [exists |-> TRUE, entries |-> <<>>],
     [exists |-> TRUE, entries |-> <<ResultsEntry(0)>>]}

\* subprocess.run(..., capture_output=not verbose): e.stderr of the
\* CalledProcessError, None when the output is not captured
NoneS == [none |-> TRUE, text |-> ""]
captured_stderr(verbose, text) ==
    IF verbose THEN NoneS ELSE [none |-> FALSE, text |-> text]

\* str(e) of a CalledProcessError of subprocess.run
str_e(code) ==
    [from |-> "str(e)", text |-> "Command returned non-zero exit status"]

\* the re-raised CalledProcessError(e.returncode, e.cmd, e.output, error_msg)
\* with error_msg = "Harbor benchmark failed: " + (e.stderr or str(e))
HarborFailed(code, stderr) ==
    [kind |-> "CalledProcessError", returncode |-> code,
     prefix |-> "Harbor benchmark failed: ",
     detail |-> IF ~stderr.none /\ stderr.text # ""
                THEN [from |-> "stderr", text |-> stderr.text]
                ELSE str_e(code)]
NoResultsFound == [kind |-> "ValueError", text |-> "No results found"]

\* sorted(output_dir.glob("*"), key=st_mtime): entries are kept oldest first
sorted_by_mtime(dir) == dir.entries

\* run_benchmark(..., output_dir, verbose) as call number n, for a
\* subprocess that exits with code, writes text to stderr and makes a
\* results directory iff produces
run_benchmark(dir, n, verbose, code, text, produces) ==
    LET made == [exists |-> TRUE, entries |-> dir.entries]
        after == IF produces
                 THEN [made EXCEPT !.entries = Append(@, ResultsEntry(n))]
                 ELSE made
        results_dirs == sorted_by_mtime(after)
    IN
    IF code # 0
    THEN [dir |-> after, invocations |-> 1, returned |-> FALSE,
          path |-> ResultsEntry(0),
          err |-> HarborFailed(code, captured_stderr(verbose, text))]
    ELSE IF results_dirs = <<>>
    THEN [dir |-> after, invocations |-> 1, returned |-> FALSE,
          path |-> ResultsEntry(0), err |-> NoResultsFound]
    ELSE [dir |-> after, invocations |-> 1, returned |-> TRUE,
          path |-> results_dirs[Len(results_dirs)], err |-> NoErr]

\* one call runner.run_benchmark(task_names, output_dir, ...)
RunBenchmark(verbose, code, text, produces) ==
    LET n == runCalls + 1
        r == run_benchmark(outputDir, n, verbose, code, text, produces)
    IN
    /\ runCalls < MaxRunCalls
    /\ runCalls' = n
    /\ outputDir' = r.dir
    /\ invocations' = invocations + r.invocations
    /\ runResult' = [done |-> TRUE, call |-> n, verbose |-> verbose,
                     returncode |-> code, tool_stderr |-> text,
                     produced |-> produces, invocations |-> r.invocations,
                     returned |-> r.returned, path |-> r.path, err |-> r.err]
    /\ UNCHANGED <<tree, togVars, scopeVars, orchVars, metVars, cmpVars,
                   cohVars, parseVars, bodyVars, expVars, regVars, agentVars,
                   ilVars>>

InitRunner ==
    /\ tree = [p \in Paths |-> ABSENT] /\ outFs = {}
    /\ TogglerIdle /\ ScopeIdle /\ OrchIdle /\ MetricsIdle
    /\ CompareIdle /\ CohensDIdle /\ ParseIdle
    /\ BodyIdle /\ ExpIdle /\ RegIdle /\ AgentIdle /\ IlIdle
    /\ outputDir \in InitOutputDirs
    /\ runCalls = 0 /\ invocations = 0 /\ runResult = NoRun

NextRunner ==
    \E verbose \in BOOLEAN, code \in ExitCodes, text \in StderrTexts,
       produces \in BOOLEAN :
        RunBenchmark(verbose, code, text, produces)

SpecRunner == InitRunner /\ [][NextRunner]_vars

(***************************************************************************)
(* AgentFileToggler                                                         *)
(***************************************************************************)
\* agent_file and disabled_file before the first call
InitAgentFs ==
    {[agent |-> a, disabled |-> d] : a \in {"agent", ABSENT},
                                     d \in {"old", ABSENT}}

\* AgentFileToggler.disable: shutil.move(agent_file, disabled_file) unless
\* the agent file is missing or the disabled file exists
disable(fs) ==
    IF fs.agent # ABSENT /\ fs.disabled = ABSENT
    THEN [agent |-> ABSENT, disabled |-> fs.agent]
    ELSE fs

\* AgentFileToggler.enable: shutil.move(disabled_file, agent_file) unless
\* the disabled file is missing or the agent file exists
enable(fs) ==
    IF fs.disabled # ABSENT /\ fs.agent = ABSENT
    THEN [agent |-> fs.disabled, disabled |-> ABSENT]
    ELSE fs

is_enabled(fs) == fs.agent # ABSENT /\ fs.disabled = ABSENT
is_disabled(fs) == fs.disabled # ABSENT

\* temporarily_disabled / temporarily_enabled up to the yield
agent_scope_enter(fs, kind) ==
    IF kind = "disabled"
    THEN [was |-> is_enabled(fs), fs |-> disable(fs)]
    ELSE [was |-> is_disabled(fs), fs |-> enable(fs)]

\* the status is put back after the yield without try/finally: skipped
\* when the body raises
agent_scope_exit_no_finally(fs, kind, was, exc) ==
    IF exc # NoErr \/ ~was THEN fs
    ELSE IF kind = "disabled" THEN enable(fs) ELSE disable(fs)

\* temporarily_disabled / temporarily_enabled from the yield on: the
\* finally clause puts the status back when it was changed at entry
agent_scope_exit(fs, kind, was, exc) ==
    IF ~was THEN fs
    ELSE IF kind = "disabled" THEN enable(fs) ELSE disable(fs)

\* the last two direct calls, newest last
Remember(call) ==
    IF Len(agentHist) < 2 THEN Append(agentHist, call)
    ELSE <<agentHist[2], call>>

\* a direct call toggler.disable()
Disable ==
    /\ agentScope.pc # "body"
    /\ agentFs' = disable(agentFs)
    /\ agentHist' = Remember([op |-> "disable", before |-> agentFs,
                              after |-> disable(agentFs)])
    /\ agentScope' = NoAgentScope
    /\ UNCHANGED <<tree, togVars, scopeVars, orchVars, metVars, cmpVars,
                   cohVars, parseVars, bodyVars, expVars, runVars, regVars,
                   ilVars>>

\* a direct call toggler.enable()
Enable ==
    /\ agentScope.pc # "body"
    /\ agentFs' = enable(agentFs)
    /\ agentHist' = Remember([op |-> "enable", before |-> agentFs,
                              after |-> enable(agentFs)])
    /\ agentScope' = NoAgentScope
    /\ UNCHANGED <<tree, togVars, scopeVars, orchVars, metVars, cmpVars,
                   cohVars, parseVars, bodyVars, expVars, runVars, regVars,
                   ilVars>>

\* with toggler.temporarily_disabled() / temporarily_enabled(): entering
AgentEnter(kind) ==
    LET e == agent_scope_enter(agentFs, kind) IN
    /\ agentScope.pc # "body"
    /\ agentFs' = e.fs
    /\ agentScope' = [pc |-> "body", kind |-> kind, was |-> e.was,
                      entry |-> agentFs, touched |-> FALSE,
                      outcome |-> "none", propagated |-> NoErr]
    /\ agentHist' = <<>>
    /\ UNCHANGED <<tree, togVars, scopeVars, orchVars, metVars, cmpVars,
                   cohVars, parseVars, bodyVars, expVars, runVars, regVars,
                   ilVars>>

\* the body writes or removes the agent file or the disabled file
AgentBodyTouch(k, c) ==
    /\ agentScope.pc = "body"
    /\ ~agentScope.touched
    /\ agentFs[k] # c
    /\ agentFs' = [agentFs EXCEPT ![k] = c]
    /\ agentScope' = [agentScope EXCEPT !.touched = TRUE]
    /\ UNCHANGED <<tree, togVars, scopeVars, orchVars, metVars, cmpVars,
                   cohVars, parseVars, bodyVars, expVars, runVars, regVars,
                   ilVars, agentHist>>

\* the body ends with outcome o and control leaves the with statement
AgentExit(o) ==
    /\ agentScope.pc = "body"
    /\ agentFs' = agent_scope_exit(agentFs, agentScope.kind, agentScope.was,
                                   BodyException(o))
    /\ agentScope' = [agentScope EXCEPT !.pc = "exited", !.outcome = o,
                                        !.propagated = BodyException(o)]
    /\ UNCHANGED <<tree, togVars, scopeVars, orchVars, metVars, cmpVars,
                   cohVars, parseVars, bodyVars, expVars, runVars, regVars,
                   ilVars, agentHist>>

InitAgentFile ==
    /\ tree = [p \in Paths |-> ABSENT] /\ outFs = {}
    /\ TogglerIdle /\ ScopeIdle /\ OrchIdle /\ MetricsIdle
    /\ CompareIdle /\ CohensDIdle /\ ParseIdle
    /\ BodyIdle /\ ExpIdle /\ RunIdle /\ RegIdle /\ IlIdle
    /\ agentFs \in InitAgentFs
    /\ agentScope = NoAgentScope /\ agentHist = <<>>

NextAgentFile ==
    \/ Disable
    \/ Enable
    \/ \E kind \in {"disabled", "enabled"} : AgentEnter(kind)
    \/ \E k \in {"agent", "disabled"}, c \in {"written", ABSENT} :
           AgentBodyTouch(k, c)
    \/ \E o \in BodyOutcomes : AgentExit(o)

SpecAgentFile == InitAgentFile /\ [][NextAgentFile]_vars

(***************************************************************************)
(* AssessorStateToggler.MANIPULATIONS as a registry                         *)
(***************************************************************************)
\* toggler objects, and the ids a caller registers plans for
Togglers == {"t1", "t2"}
RegistryIds == MANIPULATIONS \cup {"custom_assessor"}

\* a (fail_action, restore_action) pair: the closures that the constructor
\* of toggler t defines, or a pair a caller passes to register_manipulation
NoPlan == [kind |-> "none", of |-> "none"]
DefaultPlan(t) == [kind |-> "default", of |-> t]
CallerPlans == {[kind |-> "caller", of |-> n] : n \in {"p1", "p2"}}

\* MANIPULATIONS = {} in the class body
EmptyRegistry == [i \in RegistryIds |-> NoPlan]

\* cls.MANIPULATIONS[assessor_id] = (fail_action, restore_action)
register_manipulation(reg, id, plan) == [reg EXCEPT ![id] = plan]

\* _initialize_default_manipulations of toggler t: the three default ids
\* are registered with closures made in this call
initialize_default_manipulations(reg, t) ==
    [i \in RegistryIds |-> IF i \in MANIPULATIONS THEN DefaultPlan(t) ELSE reg[i]]

\* self.MANIPULATIONS[id] as toggler t reads it in force_fail and restore:
\* no instance attribute is ever set, so the class attribute is read
plan_used(reg, t, id) == reg[id]

\* AssessorStateToggler(repo_root)
Construct(t) ==
    /\ t \notin instances
    /\ instances' = instances \cup {t}
    /\ registry' = initialize_default_manipulations(registry, t)
    /\ prevRegistry' = registry
    /\ lastReg' = [op |-> "construct", by |-> t, id |-> "none"]
    /\ UNCHANGED <<tree, togVars, scopeVars, orchVars, metVars, cmpVars,
                   cohVars, parseVars, bodyVars, expVars, runVars, agentVars,
                   ilVars>>

\* t.register_manipulation(id, fail_action, restore_action)
Register(t, id, plan) ==
    /\ t \in instances
    /\ registry' = register_manipulation(registry, id, plan)
    /\ prevRegistry' = registry
    /\ lastReg' = [op |-> "register", by |-> t, id |-> id]
    /\ UNCHANGED <<tree, togVars, scopeVars, orchVars, metVars, cmpVars,
                   cohVars, parseVars, bodyVars, expVars, runVars, agentVars,
                   ilVars, instances>>

InitRegistry ==
    /\ tree = [p \in Paths |-> ABSENT] /\ outFs = {}
    /\ TogglerIdle /\ ScopeIdle /\ OrchIdle /\ MetricsIdle
    /\ CompareIdle /\ CohensDIdle /\ ParseIdle
    /\ BodyIdle /\ ExpIdle /\ RunIdle /\ AgentIdle /\ IlIdle
    /\ registry = EmptyRegistry /\ instances = {}
    /\ lastReg = NoReg /\ prevRegistry = EmptyRegistry

NextRegistry ==
    \/ \E t \in Togglers : Construct(t)
    \/ \E t \in Togglers, id \in RegistryIds, plan \in CallerPlans :
           Register(t, id, plan)

SpecRegistry == InitRegistry /\ [][NextRegistry]_vars

(***************************************************************************)
(* two temporarily_failed scopes on one criterion, step by step             *)
(***************************************************************************)
\* the two callers, and the target and backup path before either starts
Procs == {"p", "q"}
InitIlTrees ==
    {[target |-> t, backup |-> b] : t \in {"orig", ABSENT},
                                    b \in {"stale", ABSENT}}

\* where a scope stands: the two exists() calls and the shutil.move of
\* fail_*, the body, then the two exists() calls and the move of restore_*
\*   fail_*:    if target.exists() and not backup.exists(): move
\*   restore_*: if backup.exists() and not target.exists(): move
IlStart(t) == [pc |-> "fail_target", err |-> NoErr, entry |-> t]

\* one exists() call of process p
IlCheck(p) ==
    LET me == ilProcs[p]
        next ==
            CASE me.pc = "fail_target" ->
                     IF ilTree.target # ABSENT THEN "fail_backup" ELSE "body"
              [] me.pc = "fail_backup" ->
                     IF ilTree.backup = ABSENT THEN "fail_move" ELSE "body"
              [] me.pc = "restore_backup" ->
                     IF ilTree.backup # ABSENT THEN "restore_target" ELSE "exited"
              [] OTHER ->
                     IF ilTree.target = ABSENT THEN "restore_move" ELSE "exited"
    IN
    /\ me.pc \in {"fail_target", "fail_backup", "restore_backup", "restore_target"}
    /\ ilProcs' = [ilProcs EXCEPT ![p].pc = next]
    /\ UNCHANGED <<tree, togVars, scopeVars, orchVars, metVars, cmpVars,
                   cohVars, parseVars, bodyVars, expVars, runVars, regVars,
                   agentVars, ilTree>>

\* the shutil.move of process p; when the move of fail_* raises, the
\* finally clause of temporarily_failed goes on to restore
IlMove(p) ==
    LET me == ilProcs[p]
        r == IF me.pc = "fail_move"
             THEN move(ilTree, "target", "backup")
             ELSE move(ilTree, "backup", "target")
        next ==
            IF me.pc = "fail_move"
            THEN (IF r.err # NoErr THEN "restore_backup" ELSE "body")
            ELSE "exited"
    IN
    /\ me.pc \in {"fail_move", "restore_move"}
    /\ ilTree' = r.tree
    /\ ilProcs' = [ilProcs EXCEPT ![p].pc = next,
                                  ![p].err = IF r.err # NoErr THEN r.err ELSE @]
    /\ UNCHANGED <<tree, togVars, scopeVars, orchVars, metVars, cmpVars,
                   cohVars, parseVars, bodyVars, expVars, runVars, regVars,
                   agentVars>>

\* the body of process p ends with outcome o; the finally clause starts
IlBodyEnds(p, o) ==
    /\ ilProcs[p].pc = "body"
    /\ ilProcs' = [ilProcs EXCEPT ![p].pc = "restore_backup",
                                  ![p].err = BodyException(o)]
    /\ UNCHANGED <<tree, togVars, scopeVars, orchVars, metVars, cmpVars,
                   cohVars, parseVars, bodyVars, expVars, runVars, regVars,
                   agentVars, ilTree>>

InitInterleave ==
    /\ tree = [x \in Paths |-> ABSENT] /\ outFs = {}
    /\ TogglerIdle /\ ScopeIdle /\ OrchIdle /\ MetricsIdle
    /\ CompareIdle /\ CohensDIdle /\ ParseIdle
    /\ BodyIdle /\ ExpIdle /\ RunIdle /\ RegIdle /\ AgentIdle
    /\ ilTree \in InitIlTrees
    /\ ilProcs = [x \in Procs |-> IlStart(ilTree)]

NextInterleave ==
    \/ \E x \in Procs : IlCheck(x)
    \/ \E x \in Procs : IlMove(x)
    \/ \E x \in Procs, o \in BodyOutcomes : IlBodyEnds(x, o)

SpecInterleave == InitInterleave /\ [][NextInterleave]_vars

(***************************************************************************)
(* validate_assessor: trials requested and phases                           *)
(***************************************************************************)
\* C23: the command of each arm asks the external tool for
\* len(task_names) * runs_per_task trials, for every runs_per_task >= 1.
C23_TrialsRequested ==
    \A i \in DOMAIN requested :
        trials_requested(requested[i]) = Len(expTasks) * runs_per_task

\* the phases of a validate-assessor run, in order
Phases ==
    <<"exec_baseline", "parse_baseline", "exec_treatment", "parse_treatment",
      "compare", "write_json", "write_md">>
PhaseLog == SelectSeq(log, LAMBDA e : \E i \in DOMAIN Phases : Phases[i] = e)
JsonKeys ==
    {"assessor_id", "tasks", "runs_per_task", "baseline", "treatment",
     "deltas", "statistical_significance"}

\* C24: the phases of a run happen in the fixed order baseline run, baseline
\* parse, treatment run, treatment parse, compare, persist, each at most
\* once; a successful run makes exactly two executor invocations; the JSON
\* record with its seven keys and the Markdown summary are written only
\* after the comparison, and a run that aborts in an earlier phase writes
\* neither file.
C24_PhaseOrder ==
    /\ Len(PhaseLog) <= Len(Phases)
    /\ PhaseLog = SubSeq(Phases, 1, Len(PhaseLog))
    /\ Len(requested) = execCalls
    /\ pc = "Persisted" =>
          /\ execCalls = 2
          /\ PhaseLog = Phases
          /\ DOMAIN json_record = JsonKeys
          /\ json_record.assessor_id = assessor
          /\ json_record.tasks = expTasks
          /\ json_record.runs_per_task = runs_per_task
          /\ {"json", "md"} \subseteq outFs
    /\ (pc = "Aborted" /\ failPhase # "persist") =>
          /\ ~Has("write_json") /\ ~Has("write_md")
          /\ json_record = <<>>
          /\ outFs \cap {"json", "md"} = {}

\* a run over two tasks with two runs per task was persisted
C24_Witness ==
    /\ pc = "Persisted" /\ Len(expTasks) = 2 /\ runs_per_task = 2
    /\ DOMAIN json_record = JsonKeys

(***************************************************************************)
(* run_benchmark: failures of the external tool                             *)
(***************************************************************************)
\* C21: every run_benchmark call starts the external tool exactly once, and
\* when the tool exits non-zero the call raises CalledProcessError whose
\* message carries the text the tool wrote to stderr, verbose or not.
C21_OnceAndStderr ==
    runResult.done =>
        /\ runResult.invocations = 1
        /\ invocations = runCalls
        /\ runResult.returncode # 0 =>
              /\ ~runResult.returned
              /\ runResult.err.kind = "CalledProcessError"
              /\ runResult.tool_stderr # "" =>
                    /\ runResult.err.detail.from = "stderr"
                    /\ runResult.err.detail.text = runResult.tool_stderr

\* C22: when the tool exits zero without making a results directory the
\* call raises "No results found", whatever output_dir held before; a
\* returned path is the directory this call's invocation made.
C22_FreshResults ==
    (runResult.done /\ runResult.returncode = 0) =>
        /\ ~runResult.produced =>
              ~runResult.returned /\ runResult.err = NoResultsFound
        /\ runResult.returned => runResult.path = ResultsEntry(runResult.call)

C25_RegistryPerInstance ==
    /\ lastReg.op = "register" =>
          \A t \in instances \ {lastReg.by} : \A id \in RegistryIds :
              plan_used(registry, t, id) = plan_used(prevRegistry, t, id)
    /\ lastReg.op = "construct" =>
          \A id \in RegistryIds :
              prevRegistry[id] # NoPlan => registry[id] = prevRegistry[id]

(***************************************************************************)
(* samples of the duration test and of the mean duration                    *)
(***************************************************************************)
\* C30: in every comparison computed with scipy, for each arm the durations
\* that enter the duration t-test and Cohen's d are those of the same trials
\* whose durations enter the arm's mean duration, the trials with a
\* non-null agent output.
C30_SameSamples ==
    (comparison.computed /\ scipy) =>
        /\ durations(comparison.without_agent.task_results)
             = completed_durations(comparison.without_agent.task_results)
        /\ durations(comparison.with_agent.task_results)
             = completed_durations(comparison.with_agent.task_results)

(***************************************************************************)
(* interleaved scopes                                                       *)
(***************************************************************************)
\* both scopes were entered with the target present
TargetAtEntry == \A x \in Procs : ilProcs[x].entry.target = "orig"
BothExited == \A x \in Procs : ilProcs[x].pc = "exited"

\* C29: under every interleaving of two scopes for one criterion, entered
\* with the target present, the original content is at exactly one of the
\* target and the backup path in every state, and once both scopes have
\* exited it is at the target and no backup path remains.
C29_Interleaved ==
    TargetAtEntry =>
        /\ (ilTree.target = "orig") # (ilTree.backup = "orig")
        /\ BothExited => (ilTree.target = "orig" /\ ilTree.backup = ABSENT)

\* the same, for scopes entered with no backup path left by an earlier run
C29_InterleavedFromClean ==
    (TargetAtEntry /\ \A x \in Procs : ilProcs[x].entry.backup = ABSENT) =>
        /\ (ilTree.target = "orig") # (ilTree.backup = "orig")
        /\ BothExited => (ilTree.target = "orig" /\ ilTree.backup = ABSENT)

(***************************************************************************)
(* temporarily_failed: leftover backups and bodies that write the target    *)
(***************************************************************************)
\* C27: for every combination of target and backup present or absent at
\* entry, a scope whose body writes neither path leaves the working tree as
\* it was at entry: the same paths with the same content.
C27_TreeUnchanged ==
    (scopePc = "exited" /\ scopeId \in MANIPULATIONS /\ ~bodyTouched) =>
        tree = entryTree

\* C28: when the body creates the target while the criterion is forced to
\* fail, the scope's exit leaves the original content at the target and no
\* backup path.
C28_BodyCreatesTarget ==
    (/\ scopePc = "exited" /\ scopeId \in MANIPULATIONS
     /\ exists(entryTree, Target(scopeId))
     /\ ~exists(entryTree, Backup(scopeId))
     /\ bodyWrote = <<"target", "written">>) =>
        /\ tree[Target(scopeId)] = entryTree[Target(scopeId)]
        /\ ~exists(tree, Backup(scopeId))

====
